---- MODULE Spec2Model ----
(***************************************************************************)
(* Front end of the data-dictionary agent: the two chat components         *)
(* (ChatInterface, FloatingAIChatbot), the axios API client with its       *)
(* interceptors, the token helpers and the route guard.                    *)
(*                                                                         *)
(* Spec      one chat component, its requests in flight and the backend    *)
(* FairSpec  Spec plus the scheduling of promise continuations             *)
(* AuthSpec  the API client, localStorage and the router                   *)
(* DictSpec  the DataQuality and DictionaryViewer pages over a stored      *)
(*           Dictionary                                                    *)
(* GenSpec   generation requests and pipeline runs per Connection          *)
(* OnbSpec   the Signup page, the Dashboard mount effect and the           *)
(*           WelcomeWizard                                                 *)
(* ExportSpec  exportMarkdown of the mock DictionaryViewer                 *)
(* LoadSpec  the selector and the loads of the two dictionary pages        *)
(* ConnSpec  the ConnectionManager: dialog, Save and Connect               *)
(* DashSpec  fetchDashboardData of the Dashboard                           *)
(*                                                                         *)
(* The two chat components keep their state in their own useState cells    *)
(* and share none of it, so a behaviour follows one of them: `surface`     *)
(* is fixed in Init.                                                       *)
(***************************************************************************)
EXTENDS Integers, Sequences, FiniteSets, TLC

VARIABLES
    surface,            \* which chat component the behaviour follows
    mounted,            \* the page holding the component is still loaded
    now,                \* Date.now()
    messages,           \* useState<Message[]>
    inputValue,         \* useState('')
    isLoading,          \* useState(false)
    dictionaries,       \* useState<DictionaryListItem[]>([]) of ChatInterface and the pages
    selectedDictId,     \* ChatInterface: useState<string>('')
    suggestedQuestions, \* ChatInterface: useState<SuggestedQuestion[]>([])
    loadingDicts,       \* ChatInterface: useState(true)
    isOpen,             \* FloatingAIChatbot: useState(false)
    dictionaryId,       \* FloatingAIChatbot: useState<string | null>(null)
    inflight,           \* requests handed to axios and not yet settled
    listOutcome,        \* history: how the last dictionary-list fetch ended
    notices,            \* history: (situation, text) of every notice shown
    token,              \* localStorage 'token'
    user,               \* localStorage 'user'
    path,               \* window.location.pathname
    calls,              \* API calls handed to axios and not yet settled
    delivered,          \* history: how each settled API call reached its caller
    page,               \* which dictionary page the behaviour follows
    store,              \* the Dictionary the backend holds
    dictionaryData,     \* useState<DictionaryResponse | null>(null)
    selectedTable,      \* DictionaryViewer: useState<string>("")
    view,               \* what the page renders from its state
    genRequests,        \* POST /dictionaries/generate calls not yet handled
    genRuns,            \* generation runs in progress, with their stage
    genQueue,           \* generation requests held back until a run ends
    genReplies,         \* history: how each request was answered
    form,               \* Signup: name, email, password, confirmPassword
    error,              \* Signup: useState("")
    signupIsLoading,    \* Signup: useState(false) (isLoading)
    timers,             \* Signup: pending setTimeout callbacks of handleSignup
    localStorage,       \* keys 'user', 'auth' and 'showWelcomeWizard'
    showWelcome,        \* Dashboard: useState(false)
    welcomeTimer,       \* Dashboard: the setTimeout of the mount effect is pending
    activeStep,         \* WelcomeWizard: useState(0)
    signedUpSince,      \* history: a signup completed since the last skip or completion
    exportData,         \* mock DictionaryViewer: the dictionaryData record
    md,                 \* mock DictionaryViewer: the text handed to download
    chosenDictId,       \* dictionary pages: useState<string>('') (selectedDictId)
    pageLoading,        \* dictionary pages: useState(true) (loading)
    loadingDict,        \* dictionary pages: useState(false)
    loads,              \* dictionary pages: list and get requests not yet settled
    connStore,          \* the connections the backend holds
    connections,        \* useState<ConnectionResponse[]>([])
    connLoading,        \* ConnectionManager: useState(true) (loading)
    openDialog,         \* ConnectionManager: useState(false)
    editingConnection,  \* ConnectionManager: useState<ConnectionResponse | null>(null), <<>> for null
    formData,           \* ConnectionManager: useState<ConnectionFormData>
    connecting,         \* ConnectionManager: useState<string | null>(null)
    connectionTables,   \* ConnectionManager: useState<Record<string, number>>({})
    connCalls,          \* ConnectionManager: API calls not yet settled
    dashLoading,        \* Dashboard: useState(true) (loading)
    dashPhase,          \* Dashboard: the await fetchDashboardData is at
    dashCalls,          \* Dashboard: API calls not yet settled
    connRes,            \* fetchDashboardData: the settled connections list
    dictRes,            \* fetchDashboardData: the settled dictionaries list
    tableCounts,        \* fetchDashboardData: const tableCounts
    connectionTableCounts, \* Dashboard: useState<Record<string, number>>({})
    dashOutcomes        \* history: how each request of the Dashboard ended

chatVars == <<surface, mounted, now, messages, inputValue, isLoading,
              dictionaries, selectedDictId, suggestedQuestions, loadingDicts,
              isOpen, dictionaryId, inflight, listOutcome, notices>>
authVars == <<token, user, path, calls, delivered>>
dictVars == <<page, store, dictionaryData, selectedTable, view>>
genVars == <<genRequests, genRuns, genQueue, genReplies>>
onbVars == <<form, error, signupIsLoading, timers, localStorage, showWelcome,
             welcomeTimer, activeStep, signedUpSince>>
expVars == <<exportData, md>>
loadVars == <<chosenDictId, pageLoading, loadingDict, loads>>
connVars == <<connStore, connections, connLoading, openDialog,
              editingConnection, formData, connecting, connectionTables,
              connCalls>>
dashVars == <<dashLoading, dashPhase, dashCalls, connRes, dictRes,
              tableCounts, connectionTableCounts, dashOutcomes>>
moreVars == <<expVars, loadVars, connVars, dashVars>>
pageVars == <<dictVars, genVars, onbVars, moreVars>>
vars == <<chatVars, authVars, pageVars>>

----------------------------------------------------------------------------
(* Bounds *)

\* question/answer exchanges a behaviour may hold
MaxTurns == 2
\* requests one component may have in flight
MaxInflight == 2
\* API calls a behaviour of AuthSpec makes
MaxCalls == 2

\* transcript length at which no further question is asked
MaxMessages == 1 + 2 * MaxTurns
\* the longest history a query can carry within MaxTurns
LongestHistory == 2 * (MaxTurns - 1)

----------------------------------------------------------------------------
(* Values *)

Null == "null"
Undefined == "undefined"

\* JavaScript truthiness of a string | null
Truthy(s) == s # Null /\ s # Undefined /\ s # ""

Surfaces == {"ChatInterface", "FloatingAIChatbot"}
\* the dictionaries the backend may hold
DictIds == {"d1", "d2"}
Inputs == {"", "  ", "q1"}

\* String.prototype.trim over the inputs of the model
Trim(s) == IF s = "  " THEN "" ELSE s

GreetingCI == "Hello! I'm your AI database assistant. Select a dictionary below, then ask me anything about your database schema, data quality, or SQL queries."
GreetingFC == "Hi! I'm your AI assistant. I can help you explore your database schema, generate queries, and answer questions. How can I help?"
SelectDictionaryFirst == "Please select a dictionary first. If you haven't generated one yet, go to the Explorer page to generate a data dictionary."
NoDictionaryYet == "I don't have a data dictionary to work with yet. Please go to the Explorer page to generate one first, then I can answer questions about your database!"
DefaultErrorCI == "Sorry, I encountered an error. Please check your API key in Settings and try again."
DefaultErrorFC == "Sorry, something went wrong. Please check your API key in Settings."
NoDictionariesFound == "No dictionaries found. Generate a data dictionary first to enable AI chat."

\* a transcript entry; the timestamp is display-only and left out
Message(id, role, content, sql) ==
    [id |-> id, role |-> role, content |-> content, sqlQuery |-> sql]

\* an answer of the provider: prose, optionally followed by one fenced sql
\* block
Answers == { [text |-> "a1", sql |-> Undefined],
             [text |-> "a2", sql |-> "SELECT 1"],
             [text |-> "",   sql |-> "SELECT 2"] }

\* the markdown fence (three backquotes)
Fence == "'''"

\* the answer string as it travels in the response body
Raw(a) == IF a.sql = Undefined THEN a.text
          ELSE a.text \o Fence \o "sql\n" \o a.sql \o Fence

extractSqlFromResponse(a) ==
    IF a.sql # Undefined THEN [text |-> Trim(a.text), sql |-> a.sql]
    ELSE [text |-> a.text, sql |-> Undefined]

\* the suggested questions the backend derives for dictionary d
SuggestionsFor(d) == << [question |-> "q2", category |-> "tables of " \o d] >>

ListBodies == { <<>>, << [id |-> "d1"] >>, << [id |-> "d2"], [id |-> "d1"] >> }

Pending == -1
NetworkError == 0
NoResponse == [status |-> Pending, data |-> <<>>, detail |-> Undefined]

Request(kind, dict, question, history) ==
    [kind |-> kind, dictionary_id |-> dict, question |-> question,
     conversation_history |-> history, response |-> NoResponse]

RemoveAt(s, i) == SubSeq(s, 1, i - 1) \o SubSeq(s, i + 1, Len(s))

----------------------------------------------------------------------------
(* Initial state: the component is mounted and its mount effects have run *)

AuthIdle ==
    /\ token = Null /\ user = Null /\ path = "/"
    /\ calls = <<>> /\ delivered = <<>>

ChatInit ==
    /\ surface \in Surfaces
    /\ mounted = TRUE
    /\ now = 2
    /\ messages = << Message(1, "assistant",
                       IF surface = "ChatInterface" THEN GreetingCI ELSE GreetingFC,
                       Undefined) >>
    /\ inputValue = ""
    /\ isLoading = FALSE
    /\ dictionaries = <<>>
    /\ selectedDictId = ""
    /\ suggestedQuestions = <<>>
    /\ loadingDicts = (surface = "ChatInterface")
    /\ isOpen = FALSE
    /\ dictionaryId = Null
    /\ inflight = IF surface = "ChatInterface"
                  THEN << Request("list", Undefined, Undefined, <<>>) >>
                  ELSE <<>>
    /\ listOutcome = "pending"
    /\ notices = {}

\* the pages outside the behaviour are not mounted
DictIdle ==
    /\ page = "none" /\ store = <<>> /\ dictionaryData = <<>>
    /\ selectedTable = "" /\ view = <<>>

\* no generation has been requested
GenIdle ==
    /\ genRequests = <<>> /\ genRuns = <<>> /\ genQueue = <<>>
    /\ genReplies = <<>>

\* the Signup form as mounted, an empty localStorage, no Dashboard
EmptyForm == [name |-> "", email |-> "", password |-> <<>>,
              confirmPassword |-> <<>>]

EmptyStorage == [user |-> <<>>, auth |-> Null, showWelcomeWizard |-> Null]

OnbIdle ==
    /\ form = EmptyForm /\ error = "" /\ signupIsLoading = FALSE
    /\ timers = <<>> /\ localStorage = EmptyStorage
    /\ showWelcome = FALSE /\ welcomeTimer = FALSE /\ activeStep = 0
    /\ signedUpSince = FALSE

\* nothing exported
ExpIdle == exportData = <<>> /\ md = <<>>

\* no dictionary page mounted
LoadIdle ==
    /\ chosenDictId = "" /\ pageLoading = TRUE /\ loadingDict = FALSE
    /\ loads = <<>>

\* the form of the dialog as useState creates it
EmptyFormData == [name |-> "", host |-> "", password |-> ""]

\* no ConnectionManager mounted
ConnIdle ==
    /\ connStore = <<>> /\ connections = <<>> /\ connLoading = TRUE
    /\ openDialog = FALSE /\ editingConnection = <<>>
    /\ formData = EmptyFormData /\ connecting = Null
    /\ connectionTables = {} /\ connCalls = <<>>

\* no Dashboard data requested
DashIdle ==
    /\ dashLoading = TRUE /\ dashPhase = "idle" /\ dashCalls = {}
    /\ connRes = <<>> /\ dictRes = <<>> /\ tableCounts = {}
    /\ connectionTableCounts = {} /\ dashOutcomes = {}

MoreIdle == ExpIdle /\ LoadIdle /\ ConnIdle /\ DashIdle

PagesIdle == DictIdle /\ GenIdle /\ OnbIdle /\ MoreIdle

Init == ChatInit /\ AuthIdle /\ PagesIdle

----------------------------------------------------------------------------
(* Helpers of the chat components *)

MapSeq(s, F(_)) == [i \in 1..Len(s) |-> F(s[i])]

NotGreeting(m) == m.id # 1
AsChatMessage(m) == [role |-> m.role, content |-> m.content]

\* C6 mutant: the greeting is not filtered out
BuildHistoryWithGreeting(msgs) == MapSeq(msgs, AsChatMessage)

\* messages.filter((m) => m.id !== '1').map((m) => ({role, content}))
BuildHistory(msgs) == MapSeq(SelectSeq(msgs, NotGreeting), AsChatMessage)

\* error.response?.data?.detail || fallback
ErrorMsg(resp, fallback) ==
    IF resp.status # NetworkError /\ Truthy(resp.detail) THEN resp.detail
    ELSE fallback

\* which of the situations a missing dictionary selection is in
NoDictionarySituation ==
    CASE listOutcome = "empty"  -> "no dictionaries exist yet"
      [] listOutcome = "failed" -> "dictionary list fetch failed"
      [] OTHER                  -> "no dictionary selected"

Notice(situation, text) == [situation |-> situation, text |-> text]

\* the response interceptor sends a protected page to /login on a 401
LeavesPage(resp) == resp.status = 401

\* useEffect on [selectedDictId]: fetchSuggestions for a newly selected id
SuggestionsEffect(old, new) ==
    IF new # old /\ Truthy(new)
    THEN << Request("suggestions", new, Undefined, <<>>) >>
    ELSE <<>>

\* C24 mutant: the guard looks at the input only
ReturnsOnEmptyInputOnly(input, loading) == Trim(input) = ""

\* if (!inputValue.trim() || isLoading) return;
Returns(input, loading) == Trim(input) = "" \/ loading

\* room for one more exchange, or the handler returns at once
RoomToSend ==
    Len(messages) + 2 <= MaxMessages \/ Returns(inputValue, isLoading)

\* C4 mutant: setIsLoading(false) at the end of the try block only
LoadingAfterTryOnly(resp) == resp.status # 200

\* finally { setIsLoading(false) }
LoadingAfter(resp) == FALSE

Settled(i) ==
    /\ i \in 1..Len(inflight)
    /\ inflight[i].response.status # Pending

\* a list or suggestions request, settled by the response `resp`
Arrives(i, kind) ==
    /\ i \in 1..Len(inflight)
    /\ inflight[i].kind = kind

----------------------------------------------------------------------------
(* The backend: answers of the three endpoints the chat components call *)

ListResponses ==
    { [status |-> 200, data |-> b, detail |-> Undefined] : b \in ListBodies }
    \cup { [status |-> 500, data |-> <<>>, detail |-> Undefined] }

SuggestionResponses(d) ==
    { [status |-> 200, data |-> b, detail |-> Undefined] :
          b \in { <<>>, SuggestionsFor(d) } }
    \cup { [status |-> 500, data |-> <<>>, detail |-> Undefined] }

ProviderDetail == "AI provider request failed"

QueryResponses(d) ==
    { [status |-> 200,
       data |-> [answer |-> a, suggested_questions |-> sq],
       detail |-> Undefined] :
          a \in Answers, sq \in { <<>>, SuggestionsFor(d) } }
    \cup { [status |-> st, data |-> <<>>, detail |-> ProviderDetail] :
          st \in {401, 500} }
    \cup { [status |-> NetworkError, data |-> <<>>, detail |-> Undefined] }

\* POST /chat/query is answered by the backend, or the network fails it; the
\* promise of chatAPI.query settles with that outcome
BackendRespond(i) ==
    /\ mounted
    /\ i \in 1..Len(inflight)
    /\ inflight[i].kind = "query"
    /\ inflight[i].response.status = Pending
    /\ \E resp \in QueryResponses(inflight[i].dictionary_id) :
          inflight' = [inflight EXCEPT ![i].response = resp]
    /\ UNCHANGED <<surface, mounted, now, messages, inputValue, isLoading,
                   dictionaries, selectedDictId, suggestedQuestions,
                   loadingDicts, isOpen, dictionaryId, listOutcome, notices>>
    /\ UNCHANGED <<authVars, pageVars>>

----------------------------------------------------------------------------
(* ChatInterface *)

\* fetchDictionaries, after `await dictionariesAPI.list()`
CI_fetchDictionaries(i, resp) ==
    /\ mounted /\ surface = "ChatInterface"
    /\ Arrives(i, "list")
    /\ LET ok == resp.status = 200
           sel == IF ok /\ Len(resp.data) > 0 THEN resp.data[1].id
                  ELSE selectedDictId
           shown == ~ok \/ Len(resp.data) = 0
           outcome == IF ~ok THEN "failed"
                      ELSE IF Len(resp.data) = 0 THEN "empty" ELSE "loaded"
       IN  /\ dictionaries' = IF ok THEN resp.data ELSE dictionaries
           /\ selectedDictId' = sel
           /\ loadingDicts' = FALSE
           /\ listOutcome' = outcome
           /\ inflight' = RemoveAt(inflight, i)
                          \o SuggestionsEffect(selectedDictId, sel)
           /\ notices' = IF shown /\ dictionaries = <<>>
                         THEN notices \cup
                              { Notice(IF ok THEN "no dictionaries exist yet"
                                       ELSE "dictionary list fetch failed",
                                       NoDictionariesFound) }
                         ELSE notices
    /\ UNCHANGED <<surface, mounted, now, messages, inputValue, isLoading,
                   suggestedQuestions, isOpen, dictionaryId>>
    /\ UNCHANGED <<authVars, pageVars>>

\* fetchSuggestions, after `await chatAPI.getSuggestions(dictId)`
CI_fetchSuggestions(i, resp) ==
    /\ mounted /\ surface = "ChatInterface"
    /\ Arrives(i, "suggestions")
    /\ resp \in SuggestionResponses(inflight[i].dictionary_id)
    /\ suggestedQuestions' = IF resp.status = 200 THEN resp.data ELSE <<>>
    /\ inflight' = RemoveAt(inflight, i)
    /\ UNCHANGED <<surface, mounted, now, messages, inputValue, isLoading,
                   dictionaries, selectedDictId, loadingDicts, isOpen,
                   dictionaryId, listOutcome, notices>>
    /\ UNCHANGED <<authVars, pageVars>>

\* the Select's onChange: setSelectedDictId(e.target.value)
CI_setSelectedDictId(d) ==
    /\ mounted /\ surface = "ChatInterface"
    /\ ~loadingDicts
    /\ \E k \in 1..Len(dictionaries) : dictionaries[k].id = d
    /\ d # selectedDictId
    /\ Len(inflight) < MaxInflight
    /\ selectedDictId' = d
    /\ inflight' = inflight \o SuggestionsEffect(selectedDictId, d)
    /\ UNCHANGED <<surface, mounted, now, messages, inputValue, isLoading,
                   dictionaries, suggestedQuestions, loadingDicts, isOpen,
                   dictionaryId, listOutcome, notices>>
    /\ UNCHANGED <<authVars, pageVars>>

\* the TextField's onChange: setInputValue(e.target.value)
CI_setInputValue(s) ==
    /\ mounted /\ surface = "ChatInterface"
    /\ Truthy(selectedDictId)
    /\ s # inputValue
    /\ inputValue' = s
    /\ UNCHANGED <<surface, mounted, now, messages, isLoading, dictionaries,
                   selectedDictId, suggestedQuestions, loadingDicts, isOpen,
                   dictionaryId, inflight, listOutcome, notices>>
    /\ UNCHANGED <<authVars, pageVars>>

CI_handleSuggestedQuestion(k) ==
    /\ mounted /\ surface = "ChatInterface"
    /\ Truthy(selectedDictId)
    /\ k \in 1..Len(suggestedQuestions)
    /\ inputValue' = suggestedQuestions[k].question
    /\ inputValue' # inputValue
    /\ UNCHANGED <<surface, mounted, now, messages, isLoading, dictionaries,
                   selectedDictId, suggestedQuestions, loadingDicts, isOpen,
                   dictionaryId, inflight, listOutcome, notices>>
    /\ UNCHANGED <<authVars, pageVars>>

\* C1 mutant: the query addresses the first listed ("most recent") dictionary
CI_ChatQueryMostRecent ==
    Request("query", dictionaries[1].id, inputValue, BuildHistory(messages))

\* chatAPI.query({dictionary_id: selectedDictId, question, conversation_history})
CI_ChatQuery ==
    Request("query", selectedDictId, inputValue, BuildHistory(messages))

\* handleSendMessage up to `await chatAPI.query(...)`
CI_handleSendMessage ==
    IF Returns(inputValue, isLoading)
    THEN UNCHANGED chatVars
    ELSE IF ~Truthy(selectedDictId)
    THEN /\ messages' = Append(messages,
                Message(now, "assistant", SelectDictionaryFirst, Undefined))
         /\ now' = now + 1
         /\ notices' = notices \cup
                { Notice(NoDictionarySituation, SelectDictionaryFirst) }
         /\ UNCHANGED <<surface, mounted, inputValue, isLoading, dictionaries,
                        selectedDictId, suggestedQuestions, loadingDicts,
                        isOpen, dictionaryId, inflight, listOutcome>>
    ELSE /\ messages' = Append(messages,
                Message(now, "user", inputValue, Undefined))
         /\ now' = now + 1
         /\ inputValue' = ""
         /\ isLoading' = TRUE
         /\ inflight' = Append(inflight, CI_ChatQuery)
         /\ UNCHANGED <<surface, mounted, dictionaries, selectedDictId,
                        suggestedQuestions, loadingDicts, isOpen,
                        dictionaryId, listOutcome, notices>>

\* the send button: disabled={!inputValue.trim() || isLoading || !selectedDictId}
CI_ClickSend ==
    /\ mounted /\ surface = "ChatInterface"
    /\ Trim(inputValue) # "" /\ ~isLoading /\ Truthy(selectedDictId)
    /\ RoomToSend
    /\ Len(inflight) < MaxInflight
    /\ CI_handleSendMessage
    /\ UNCHANGED <<authVars, pageVars>>

\* handleKeyPress with Enter (no Shift) in the enabled TextField
CI_handleKeyPress ==
    /\ mounted /\ surface = "ChatInterface"
    /\ Truthy(selectedDictId)
    /\ RoomToSend
    /\ Len(inflight) < MaxInflight
    /\ CI_handleSendMessage
    /\ UNCHANGED <<authVars, pageVars>>

\* the messages the try block (on success) or the catch block appends
CI_Replies(resp) ==
    IF resp.status = 200
    THEN LET ex == extractSqlFromResponse(resp.data.answer)
         IN  << Message(now + 1, "assistant",
                        IF ex.text # "" THEN ex.text
                        ELSE Raw(resp.data.answer),
                        ex.sql) >>
    ELSE << Message(now + 1, "assistant", ErrorMsg(resp, DefaultErrorCI),
                    Undefined) >>

\* handleSendMessage after `await chatAPI.query(...)`: try, catch, finally
CI_querySettled(i) ==
    /\ mounted /\ surface = "ChatInterface"
    /\ Settled(i) /\ inflight[i].kind = "query"
    /\ LET resp == inflight[i].response
       IN  /\ messages' = messages \o CI_Replies(resp)
           /\ isLoading' = LoadingAfter(resp)
           /\ IF resp.status = 200
              THEN /\ suggestedQuestions' =
                         IF Len(resp.data.suggested_questions) > 0
                         THEN resp.data.suggested_questions
                         ELSE suggestedQuestions
                   /\ UNCHANGED <<mounted, notices>>
              ELSE /\ notices' = notices \cup
                         { Notice("generation/provider failure",
                                  ErrorMsg(resp, DefaultErrorCI)) }
                   /\ mounted' = ~LeavesPage(resp)
                   /\ UNCHANGED suggestedQuestions
    /\ now' = now + 1
    /\ inflight' = RemoveAt(inflight, i)
    /\ UNCHANGED <<surface, inputValue, dictionaries, selectedDictId,
                   loadingDicts, isOpen, dictionaryId, listOutcome>>
    /\ UNCHANGED <<authVars, pageVars>>

----------------------------------------------------------------------------
(* FloatingAIChatbot *)

\* the floating button: setIsOpen(true), then the effect on [isOpen]
FC_open ==
    /\ mounted /\ surface = "FloatingAIChatbot"
    /\ ~isOpen
    /\ Len(inflight) < MaxInflight
    /\ isOpen' = TRUE
    /\ inflight' = IF ~Truthy(dictionaryId)
                   THEN Append(inflight,
                               Request("list", Undefined, Undefined, <<>>))
                   ELSE inflight
    /\ UNCHANGED <<surface, mounted, now, messages, inputValue, isLoading,
                   dictionaries, selectedDictId, suggestedQuestions,
                   loadingDicts, dictionaryId, listOutcome, notices>>
    /\ UNCHANGED <<authVars, pageVars>>

\* the close icon: setIsOpen(false)
FC_close ==
    /\ mounted /\ surface = "FloatingAIChatbot"
    /\ isOpen
    /\ isOpen' = FALSE
    /\ UNCHANGED <<surface, mounted, now, messages, inputValue, isLoading,
                   dictionaries, selectedDictId, suggestedQuestions,
                   loadingDicts, dictionaryId, inflight, listOutcome, notices>>
    /\ UNCHANGED <<authVars, pageVars>>

\* loadDictionary, after `await dictionariesAPI.list()`
FC_loadDictionary(i, resp) ==
    /\ mounted /\ surface = "FloatingAIChatbot"
    /\ Arrives(i, "list")
    /\ LET ok == resp.status = 200
       IN  /\ dictionaryId' = IF ok /\ Len(resp.data) > 0
                              THEN resp.data[1].id
                              ELSE dictionaryId
           /\ listOutcome' = IF ~ok THEN "failed"
                             ELSE IF Len(resp.data) = 0 THEN "empty"
                             ELSE "loaded"
    /\ inflight' = RemoveAt(inflight, i)
    /\ UNCHANGED <<surface, mounted, now, messages, inputValue, isLoading,
                   dictionaries, selectedDictId, suggestedQuestions,
                   loadingDicts, isOpen, notices>>
    /\ UNCHANGED <<authVars, pageVars>>

\* the TextField's onChange: setInputValue(e.target.value)
FC_setInputValue(s) ==
    /\ mounted /\ surface = "FloatingAIChatbot"
    /\ isOpen
    /\ s # inputValue
    /\ inputValue' = s
    /\ UNCHANGED <<surface, mounted, now, messages, isLoading, dictionaries,
                   selectedDictId, suggestedQuestions, loadingDicts, isOpen,
                   dictionaryId, inflight, listOutcome, notices>>
    /\ UNCHANGED <<authVars, pageVars>>

\* chatAPI.query({dictionary_id: dictionaryId, question, conversation_history})
FC_ChatQuery ==
    Request("query", dictionaryId, inputValue, BuildHistory(messages))

\* handleSendMessage up to `await chatAPI.query(...)`
FC_handleSendMessage ==
    IF Returns(inputValue, isLoading)
    THEN UNCHANGED chatVars
    ELSE LET userMessage == Message(now, "user", inputValue, Undefined)
         IN  IF ~Truthy(dictionaryId)
             THEN /\ messages' = messages \o
                        << userMessage,
                           Message(now + 1, "assistant", NoDictionaryYet,
                                   Undefined) >>
                  /\ now' = now + 1
                  /\ inputValue' = ""
                  /\ isLoading' = FALSE
                  /\ notices' = notices \cup
                        { Notice(NoDictionarySituation, NoDictionaryYet) }
                  /\ UNCHANGED <<surface, mounted, dictionaries,
                                 selectedDictId, suggestedQuestions,
                                 loadingDicts, isOpen, dictionaryId, inflight,
                                 listOutcome>>
             ELSE /\ messages' = Append(messages, userMessage)
                  /\ now' = now + 1
                  /\ inputValue' = ""
                  /\ isLoading' = TRUE
                  /\ inflight' = Append(inflight, FC_ChatQuery)
                  /\ UNCHANGED <<surface, mounted, dictionaries,
                                 selectedDictId, suggestedQuestions,
                                 loadingDicts, isOpen, dictionaryId,
                                 listOutcome, notices>>

\* the send button: disabled={!inputValue.trim() || isLoading}
FC_ClickSend ==
    /\ mounted /\ surface = "FloatingAIChatbot"
    /\ isOpen
    /\ Trim(inputValue) # "" /\ ~isLoading
    /\ RoomToSend
    /\ Len(inflight) < MaxInflight
    /\ FC_handleSendMessage
    /\ UNCHANGED <<authVars, pageVars>>

\* handleKeyPress with Enter (no Shift) in the TextField
FC_handleKeyPress ==
    /\ mounted /\ surface = "FloatingAIChatbot"
    /\ isOpen
    /\ RoomToSend
    /\ Len(inflight) < MaxInflight
    /\ FC_handleSendMessage
    /\ UNCHANGED <<authVars, pageVars>>

\* C3 mutant: the catch block appends nothing
FC_RepliesSwallowError(resp) ==
    IF resp.status = 200
    THEN << Message(now + 1, "assistant", Raw(resp.data.answer), Undefined) >>
    ELSE <<>>

\* the messages the try block (on success) or the catch block appends
FC_Replies(resp) ==
    IF resp.status = 200
    THEN << Message(now + 1, "assistant", Raw(resp.data.answer), Undefined) >>
    ELSE << Message(now + 1, "assistant", ErrorMsg(resp, DefaultErrorFC),
                    Undefined) >>

\* handleSendMessage after `await chatAPI.query(...)`: try, catch, finally
FC_querySettled(i) ==
    /\ mounted /\ surface = "FloatingAIChatbot"
    /\ Settled(i) /\ inflight[i].kind = "query"
    /\ LET resp == inflight[i].response
       IN  /\ messages' = messages \o FC_Replies(resp)
           /\ isLoading' = LoadingAfter(resp)
           /\ IF resp.status = 200
              THEN UNCHANGED <<mounted, notices>>
              ELSE /\ notices' = notices \cup
                         { Notice("generation/provider failure",
                                  ErrorMsg(resp, DefaultErrorFC)) }
                   /\ mounted' = ~LeavesPage(resp)
    /\ now' = now + 1
    /\ inflight' = RemoveAt(inflight, i)
    /\ UNCHANGED <<surface, inputValue, dictionaries, selectedDictId,
                   suggestedQuestions, loadingDicts, isOpen, dictionaryId,
                   listOutcome>>
    /\ UNCHANGED <<authVars, pageVars>>

----------------------------------------------------------------------------
(* The chat specification *)

QuerySettled ==
    \E i \in 1..MaxInflight : CI_querySettled(i) \/ FC_querySettled(i)

Next ==
    \/ \E i \in 1..MaxInflight : BackendRespond(i)
    \/ \E i \in 1..MaxInflight, resp \in ListResponses :
          CI_fetchDictionaries(i, resp)
    \/ \E i \in 1..MaxInflight :
          \E resp \in UNION { SuggestionResponses(d) : d \in DictIds } :
             CI_fetchSuggestions(i, resp)
    \/ \E d \in DictIds : CI_setSelectedDictId(d)
    \/ \E s \in Inputs : CI_setInputValue(s)
    \/ \E k \in 1..1 : CI_handleSuggestedQuestion(k)
    \/ CI_ClickSend
    \/ CI_handleKeyPress
    \/ \E i \in 1..MaxInflight : CI_querySettled(i)
    \/ FC_open
    \/ FC_close
    \/ \E i \in 1..MaxInflight, resp \in ListResponses :
          FC_loadDictionary(i, resp)
    \/ \E s \in Inputs : FC_setInputValue(s)
    \/ FC_ClickSend
    \/ FC_handleKeyPress
    \/ \E i \in 1..MaxInflight : FC_querySettled(i)

Spec == Init /\ [][Next]_vars

\* A settled promise runs its continuation: the event loop does not starve
\* it.  Nothing makes the backend answer, and axios.create sets no timeout.
FairSpec == Spec /\ WF_vars(QuerySettled)

----------------------------------------------------------------------------
(* Properties of the chat components *)

HasQuery(reqs) == \E k \in 1..Len(reqs) : reqs[k].kind = "query"

\* the dictionary selected in the component the behaviour follows
Selected == IF surface = "ChatInterface" THEN selectedDictId ELSE dictionaryId

\* this step hands a chat query to axios; it is the last request in flight
SendsQuery ==
    /\ Len(inflight') = Len(inflight) + 1
    /\ inflight'[Len(inflight')].kind = "query"

\* this step settles the chat query in flight
SettlesQuery == HasQuery(inflight) /\ ~HasQuery(inflight')

TheQuery == inflight[CHOOSE k \in 1..Len(inflight) : inflight[k].kind = "query"]

\* C1: every chat query request carries the id of the dictionary selected in
\* its component at the moment of sending, and none is sent while no
\* dictionary is selected.
C1_QueryCarriesSelectedId ==
    [][SendsQuery =>
          /\ Truthy(Selected)
          /\ inflight'[Len(inflight')].dictionary_id = Selected]_vars

\* C1 witness: a query for d1 is in flight although d2 is listed first
C1_Witness ==
    /\ HasQuery(inflight)
    /\ TheQuery.dictionary_id = "d1"
    /\ Len(dictionaries) = 2 /\ dictionaries[1].id = "d2"

\* C2: the notices for "no dictionary selected", "generation/provider
\* failure" and "no dictionaries exist yet" (and a failed fetch of the
\* dictionary list) never carry the same text.
C2_SituationsDistinguished ==
    \A a, b \in notices : a.situation # b.situation => a.text # b.text

\* C3: once a query has settled the transcript holds the user's message
\* followed by exactly one assistant message for it; while it is in flight
\* the user's message is last.  The reply is the answer on success and an
\* error text on failure.
TranscriptShape ==
    \A i \in 1..Len(messages) :
        messages[i].role = "user" =>
            IF i = Len(messages) THEN HasQuery(inflight)
            ELSE /\ messages[i + 1].role = "assistant"
                 /\ i + 2 <= Len(messages) => messages[i + 2].role = "user"

ErrorTexts == {ProviderDetail, DefaultErrorCI, DefaultErrorFC}

AnswerTexts(a) == {a.text, Raw(a)} \ {""}

ReplyMatches ==
    LET resp == TheQuery.response
        reply == messages'[Len(messages')]
    IN  /\ Len(messages') = Len(messages) + 1
        /\ SubSeq(messages', 1, Len(messages)) = messages
        /\ messages[Len(messages)].role = "user"
        /\ messages[Len(messages)].content = TheQuery.question
        /\ reply.role = "assistant"
        /\ IF resp.status = 200
           THEN reply.content \in AnswerTexts(resp.data.answer)
           ELSE reply.content \in ErrorTexts

C3_OneReplyPerQuestion ==
    /\ [](HasQuery(inflight) \/ TranscriptShape)
    /\ [](HasQuery(inflight) =>
            /\ messages[Len(messages)].role = "user"
            /\ \A i \in 1..(Len(messages) - 1) :
                  messages[i].role = "user" =>
                      messages[i + 1].role = "assistant")
    /\ [][SettlesQuery => ReplyMatches]_vars

\* C3 witness: both an answered and a failed question have settled
C3_Witness ==
    /\ ~HasQuery(inflight)
    /\ \E i, j \in 1..Len(messages) :
          /\ messages[i].role = "assistant" /\ messages[i].content = "a1"
          /\ messages[j].role = "assistant" /\ messages[j].content \in ErrorTexts

\* C4: a failed chat query leaves the component idle: isLoading is false, the
\* selected dictionary and the earlier transcript are unchanged, and the next
\* question is accepted and sent.  (A 401 is the response interceptor's case:
\* it takes the browser to /login.)
ProviderFailed ==
    /\ SettlesQuery
    /\ TheQuery.response.status \in {500, NetworkError}

C4_FailureIsPerQuery ==
    [][ProviderFailed =>
          /\ mounted'
          /\ isLoading' = FALSE
          /\ Selected' = Selected
          /\ SubSeq(messages', 1, Len(messages)) = messages
          /\ ~Returns("q1", isLoading')
          /\ Truthy(Selected')]_vars

\* C4 witness: after a failed question a further question is in flight
C4_Witness ==
    /\ HasQuery(inflight)
    /\ TheQuery.response.status = Pending
    /\ \E i \in 1..Len(messages) : messages[i].content \in ErrorTexts

\* C5: after a question is sent the chat eventually leaves its loading state,
\* also when the backend never responds.
C5_EventuallyNotLoading == isLoading ~> ~isLoading

\* C6: the conversation_history of a query is the earlier transcript, in
\* order, as {role, content}, without the greeting and without the question
\* being asked.
EarlierTurns ==
    [i \in 1..(Len(messages) - 1) |->
        [role |-> messages[i + 1].role, content |-> messages[i + 1].content]]

C6_HistoryIsEarlierTranscript ==
    [][SendsQuery =>
          /\ inflight'[Len(inflight')].conversation_history = EarlierTurns
          /\ inflight'[Len(inflight')].question = inputValue
          /\ messages' = Append(messages,
                [id |-> now, role |-> "user", content |-> inputValue,
                 sqlQuery |-> Undefined])]_vars

\* C6 witness: a query in flight carries one full earlier exchange
C6_Witness ==
    /\ HasQuery(inflight)
    /\ Len(TheQuery.conversation_history) = 2
    /\ TheQuery.conversation_history[1].role = "user"
    /\ TheQuery.conversation_history[2].role = "assistant"

\* C7: there is a fixed N such that no chat query carries more than N history
\* entries.  Stated for every N below the longest history the conversation
\* cap allows: a history as long as the whole conversation refutes each.
C7_HistoryBoundedToLastN ==
    \E N \in 0..(LongestHistory - 1) :
        \A k \in 1..Len(inflight) :
            inflight[k].kind = "query" =>
                Len(inflight[k].conversation_history) <= N

----------------------------------------------------------------------------
(* The API client, the token helpers and the route guard *)

PublicPaths == {"/", "/login", "/signup"}
ProtectedPaths == {"/dashboard", "/connections", "/dictionary", "/explorer",
                   "/chat", "/quality", "/settings"}
\* a path no route names stands for every such path
AllPaths == PublicPaths \cup ProtectedPaths \cup {"/docs"}

Tokens == {"", "t1", "t2"}
Users == {"{id:1}"}

\* C8 mutant: any stored token, even an empty one, counts as a session
isAuthenticatedNotNull == token # Null

\* !!localStorage.getItem('token')
isAuthenticated == Truthy(token)

\* localStorage.getItem('token')
getToken == token

\* stored ? JSON.parse(stored) : null
getUser == IF Truthy(user) THEN user ELSE Null

\* the two localStorage entries the auth utilities own
Storage == [token |-> token, user |-> user]

\* C11 mutant: only the token is removed
logoutTokenOnly(s) == [s EXCEPT !.token = Null]

\* logout: removeItem('token'); removeItem('user')
logout(s) == [s EXCEPT !.token = Null, !.user = Null]

\* <ProtectedRoute>: the children, or <Navigate to="/login" />
ProtectedRoute(p) == IF isAuthenticated THEN p ELSE "/login"

\* <Routes>: the page the router shows for a requested path
Route(p) ==
    IF p \in ProtectedPaths THEN ProtectedRoute(p)
    ELSE IF p \in PublicPaths THEN p
    ELSE "/"

\* axios.create({baseURL, headers: {'Content-Type': 'application/json'}})
BaseConfig ==
    [headers |-> [ContentType |-> "application/json",
                  Authorization |-> Undefined]]

\* C10 mutant: the header is attached whenever a token entry exists
RequestInterceptorNotNull(config) ==
    IF token # Null
    THEN [config EXCEPT !.headers.Authorization = "Bearer " \o token]
    ELSE config

\* api.interceptors.request: attach the JWT token
RequestInterceptor(config) ==
    IF Truthy(token)
    THEN [config EXCEPT !.headers.Authorization = "Bearer " \o token]
    ELSE config

\* C9 mutant: the home page is not exempt from the redirect
NoRedirectPathsWithoutHome == {"/login", "/signup"}

\* ['/login', '/signup', '/'] of the response interceptor
NoRedirectPaths == {"/login", "/signup", "/"}

Outcome(status, rejected) ==
    [status |-> status, rejected |-> rejected, from |-> path]

\* the Login and Signup pages store the session the backend returned:
\* setToken(access_token), setUser(user)
Login_storeSession(t, u) ==
    /\ path \in {"/login", "/signup"}
    /\ token' = t
    /\ user' = u
    /\ UNCHANGED <<path, calls, delivered>>
    /\ UNCHANGED <<chatVars, pageVars>>

\* a link, navigate(path) or a typed URL: the router renders the route
Navigate(p) ==
    /\ path' = Route(p)
    /\ UNCHANGED <<token, user, calls, delivered>>
    /\ UNCHANGED <<chatVars, pageVars>>

\* AppleNavbar.handleLogout: logout(); navigate('/')
handleLogout ==
    /\ token' = logout(Storage).token
    /\ user' = logout(Storage).user
    /\ path' = Route("/")
    /\ UNCHANGED <<calls, delivered>>
    /\ UNCHANGED <<chatVars, pageVars>>

\* a call through `api`: the request interceptor runs, the request leaves
Api_request ==
    /\ Len(calls) + Len(delivered) < MaxCalls
    /\ calls' = Append(calls, RequestInterceptor(BaseConfig))
    /\ UNCHANGED <<token, user, path, delivered>>
    /\ UNCHANGED <<chatVars, pageVars>>

\* api.interceptors.response: a response, or a failure, of call i arrives.
\* window.location.href = '/login' reloads the page, which drops the calls
\* still in flight.
Api_response(i, status) ==
    /\ i \in 1..Len(calls)
    /\ IF status = 200
       THEN /\ delivered' = Append(delivered, Outcome(status, FALSE))
            /\ calls' = RemoveAt(calls, i)
            /\ UNCHANGED <<token, user, path>>
       ELSE /\ delivered' = Append(delivered, Outcome(status, TRUE))
            /\ IF status = 401
               THEN /\ token' = Null
                    /\ user' = Null
                    /\ IF path \notin NoRedirectPaths
                       THEN path' = Route("/login") /\ calls' = <<>>
                       ELSE path' = path /\ calls' = RemoveAt(calls, i)
               ELSE /\ calls' = RemoveAt(calls, i)
                    /\ UNCHANGED <<token, user, path>>
    /\ UNCHANGED <<chatVars, pageVars>>

AuthInit == ChatInit /\ surface = "ChatInterface" /\ AuthIdle /\ PagesIdle

AuthNext ==
    \/ \E t \in Tokens, u \in Users : Login_storeSession(t, u)
    \/ \E p \in AllPaths : Navigate(p)
    \/ handleLogout
    \/ Api_request
    \/ \E i \in 1..MaxCalls, st \in {200, 401, 500, NetworkError} :
          Api_response(i, st)

AuthSpec == AuthInit /\ [][AuthNext]_vars

----------------------------------------------------------------------------
(* Properties of the API client and the route guard *)

HasToken == token # Null /\ token # ""

\* C8: a protected page is on screen only while a token is stored; a visit
\* without a token ends on /login; a step that removes the token (logout, a
\* 401 response) leaves the protected page.
C8_ProtectedNeedsToken ==
    /\ [](path \in ProtectedPaths => HasToken)
    /\ [][(~HasToken /\ \E p \in ProtectedPaths : Navigate(p))
             => path' = "/login"]_vars
    /\ [][(HasToken /\ ~HasToken') => path' \notin ProtectedPaths]_vars

\* C8 witness: a protected page is shown again, with a token, after a 401
\* took the user off a protected page
C8_Witness ==
    /\ path = "/chat" /\ token = "t1"
    /\ \E k \in 1..Len(delivered) :
          delivered[k].status = 401 /\ delivered[k].from \in ProtectedPaths

\* C11: after logout() returns (handleLogout runs it from any session
\* state) getToken() and getUser() return null and isAuthenticated() is
\* false, and a second logout() leaves the storage as it is.
C11_LogoutIsFull ==
    [][handleLogout =>
          /\ getToken' = Null /\ getUser' = Null /\ ~isAuthenticated'
          /\ logout(Storage') = Storage']_vars

\* C11 witness: logged out on the home page while a call sent with the
\* session's token is still in flight and no response has removed the token
C11_Witness ==
    /\ token = Null /\ user = Null /\ path = "/" /\ delivered = <<>>
    /\ \E k \in 1..Len(calls) : calls[k].headers.Authorization = "Bearer t1"

\* this step settles an API call with a 401 response
Settles401 ==
    /\ Len(delivered') = Len(delivered) + 1
    /\ delivered'[Len(delivered')].status = 401

\* C9: on a 401 response the token and the user are removed, the browser
\* goes to /login unless the path is /login, /signup or /, and the error
\* still reaches the caller.
C9_UnauthorizedRedirects ==
    [][Settles401 =>
          /\ token' = Null /\ user' = Null
          /\ path' = IF path \in {"/login", "/signup", "/"} THEN path
                     ELSE "/login"
          /\ delivered'[Len(delivered')].rejected]_vars

\* C9 witness: 401 responses have arrived on a protected page and on the
\* home page
C9_Witness ==
    /\ token = Null /\ user = Null
    /\ \E j, k \in 1..Len(delivered) :
          /\ delivered[j].status = 401 /\ delivered[j].from \in ProtectedPaths
          /\ delivered[k].status = 401 /\ delivered[k].from = "/"

\* this step hands an API call to the network; it is the last call in flight
SendsCall == Len(calls') = Len(calls) + 1

\* C10: a request carries Authorization: Bearer <token>, with the token
\* stored at send time, if and only if a non-empty token is stored then.
C10_BearerIffToken ==
    [][SendsCall =>
          LET auth == calls'[Len(calls')].headers.Authorization
          IN  /\ (auth # Undefined) <=> HasToken
              /\ HasToken => auth = "Bearer " \o token]_vars

\* C10 witness: a call with the bearer header and a call without it
C10_Witness ==
    \E j, k \in 1..Len(calls) :
        /\ calls[j].headers.Authorization = "Bearer t1"
        /\ calls[k].headers.Authorization = Undefined

----------------------------------------------------------------------------
(* The generation pipeline behind GET /dictionaries/{id}: the snapshot,    *)
(* the Quality Analyzer, the Description Generator and the Dictionary      *)
(* Assembler. Percentages and scores are held in tenths of a percent.      *)

\* columns a table of the source database may have
MaxCols == 6

\* a number that is null or absent in the JSON
NoNumber == -1

SourceTableNames == <<"orders", "order_items">>

\* how the null counts of a table's columns are distributed
Profiles == {"empty", "clean", "rising", "falling", "discount"}

RowsOf(profile) == IF profile = "empty" THEN 0 ELSE 2000

NullsOf(profile, i) ==
    CASE profile = "rising"   -> (i * 2000) \div (MaxCols + 1)
      [] profile = "falling"  -> ((MaxCols + 1 - i) * 2000) \div (MaxCols + 1)
      [] profile = "discount" -> IF i = 1 THEN 1205 ELSE 2000
      [] OTHER                -> 0

\* one table of the source database with the statistics sampling finds
SourceTable(name, n, profile) ==
    [name |-> name, rows |-> RowsOf(profile),
     columns |-> [i \in 1..n |->
                    [name |-> "c" \o ToString(i),
                     data_type |-> "INTEGER",
                     nulls |-> NullsOf(profile, i)]]]

SourceTables(name) ==
    {SourceTable(name, n, pr) : n \in 0..MaxCols, pr \in Profiles}

\* the databases a Connection may point to: one table or two
Sources ==
    {<<a>> : a \in SourceTables(SourceTableNames[1])}
    \cup {<<a, b>> : a \in SourceTables(SourceTableNames[1]),
                     b \in SourceTables(SourceTableNames[2])}

RECURSIVE SumSeq(_)
SumSeq(s) == IF s = <<>> THEN 0 ELSE s[1] + SumSeq(Tail(s))

\* x / n rounded to the nearest integer, halves up (x >= 0, n > 0)
RoundDiv(x, n) == (2 * x + n) \div (2 * n)

\* Scores are clamped to [0, 100]
Clamp(x) == IF x < 0 THEN 0 ELSE IF x > 1000 THEN 1000 ELSE x

\* null_count / sampled_count * 100, rounded to one decimal
NullPercentage(nulls, sampled) ==
    IF sampled = 0 THEN 0 ELSE RoundDiv(1000 * nulls, sampled)

\* ColumnQuality; a sampling failure degrades the metrics to unknown
ColumnQuality(c, rows, known) ==
    [name |-> c.name,
     null_count |-> IF known THEN c.nulls ELSE NoNumber,
     null_percentage |-> IF known THEN NullPercentage(c.nulls, rows)
                         ELSE NoNumber]

\* 100 - average null_percentage of the analysed columns
Completeness(cqs) ==
    LET known == SelectSeq(cqs, LAMBDA q : q.null_percentage # NoNumber)
    IN  IF known = <<>> THEN 1000
        ELSE 1000 - RoundDiv(SumSeq([k \in 1..Len(known) |->
                                        known[k].null_percentage]),
                             Len(known))

\* primary-key distinct ratio: the first column is the key
Uniqueness(t) ==
    IF t.columns = <<>> \/ t.rows = 0 \/ t.columns[1].nulls = 0 THEN 1000
    ELSE (1000 * (t.rows - t.columns[1].nulls)) \div t.rows

\* share of analysed columns that are not more than half null
NullPenalty(cqs) ==
    LET known == SelectSeq(cqs, LAMBDA q : q.null_percentage # NoNumber)
        heavy == SelectSeq(known, LAMBDA q : q.null_percentage > 500)
    IN  IF known = <<>> THEN 1000
        ELSE 1000 - (1000 * Len(heavy)) \div Len(known)

\* TableQuality of one table; unknownFirst: sampling the first column failed
TableQuality(t, unknownFirst) ==
    LET cqs == [i \in 1..Len(t.columns) |->
                  ColumnQuality(t.columns[i], t.rows,
                                ~(unknownFirst /\ i = 1))]
        completeness == Clamp(IF t.rows = 0 THEN 1000 ELSE Completeness(cqs))
    IN  [name |-> t.name, entry |-> TRUE,
         overall_quality_score |->
             Clamp((60 * completeness + 25 * Uniqueness(t)
                    + 15 * NullPenalty(cqs)) \div 100),
         completeness |-> completeness,
         total_rows |-> t.rows,
         has_column_metrics |-> TRUE,
         column_metrics |-> cqs]

\* a table the quality map names with a null entry
TableQualityNull(name) ==
    [name |-> name, entry |-> FALSE, overall_quality_score |-> NoNumber,
     completeness |-> NoNumber, total_rows |-> NoNumber,
     has_column_metrics |-> FALSE, column_metrics |-> <<>>]

\* how the quality stage of a run may end
QualityStages == {"full", "skipped", "tableFailed", "tableNull",
                  "columnUnknown"}

\* the quality map of a run: a Record<string, TableQuality>, or absent
QualityMap(src, stage) ==
    LET full(u) == [k \in 1..Len(src) |-> TableQuality(src[k], u)]
    IN  CASE stage = "skipped"       -> [present |-> FALSE, entries |-> <<>>]
          [] stage = "tableFailed"   ->
                [present |-> TRUE, entries |-> Tail(full(FALSE))]
          [] stage = "tableNull"     ->
                [present |-> TRUE,
                 entries |-> <<TableQualityNull(src[1].name)>>
                             \o Tail(full(FALSE))]
          [] stage = "columnUnknown" ->
                [present |-> TRUE, entries |-> full(TRUE)]
          [] OTHER                   ->
                [present |-> TRUE, entries |-> full(FALSE)]

\* how the description stage of a run may end
DescriptionStages == {"full", "skipped", "tableFailed", "columnMissing"}

\* {description, column_descriptions} of one table; missingFirst: the
\* provider returned no text for the first column
TableDescription(t, missingFirst) ==
    [name |-> t.name,
     description |-> "about " \o t.name,
     column_descriptions |->
         LET all == [i \in 1..Len(t.columns) |->
                       [name |-> t.columns[i].name,
                        text |-> "about " \o t.columns[i].name]]
         IN  IF missingFirst /\ all # <<>> THEN Tail(all) ELSE all]

\* the description map of a run: a Record<string, {...}>, or absent
DescriptionMap(src, stage) ==
    LET full(m) == [k \in 1..Len(src) |-> TableDescription(src[k], m)]
    IN  CASE stage = "skipped"       -> [present |-> FALSE, entries |-> <<>>]
          [] stage = "tableFailed"   ->
                [present |-> TRUE, entries |-> Tail(full(FALSE))]
          [] stage = "columnMissing" ->
                [present |-> TRUE, entries |-> full(TRUE)]
          [] OTHER                   ->
                [present |-> TRUE, entries |-> full(FALSE)]

\* TableMeta of the SchemaSnapshot
TableMeta(t) ==
    [name |-> t.name,
     columns |-> [i \in 1..Len(t.columns) |->
                    [name |-> t.columns[i].name,
                     data_type |-> t.columns[i].data_type,
                     nullable |-> t.columns[i].nulls > 0]],
     row_count |-> t.rows]

\* SchemaSnapshot: table name -> TableMeta, plus the table count
SchemaSnapshot(src) ==
    [tables |-> [k \in 1..Len(src) |-> TableMeta(src[k])],
     total_tables |-> Len(src)]

\* Dictionary Assembler: pure merge, totals recomputed from the snapshot
Assemble(snapshot, quality, descriptions) ==
    [id |-> "d1",
     database_name |-> "shop",
     total_tables |-> Len(snapshot.tables),
     total_columns |-> SumSeq([k \in 1..Len(snapshot.tables) |->
                                 Len(snapshot.tables[k].columns)]),
     metadata |-> snapshot,
     quality_metrics |-> quality,
     ai_descriptions |-> descriptions]

\* every Dictionary a run of the pipeline can produce
Dictionaries ==
    {Assemble(SchemaSnapshot(src), QualityMap(src, q), DescriptionMap(src, d)) :
        src \in Sources, q \in QualityStages, d \in DescriptionStages}

\* entry of a map kept in Object.entries order, <<>> when the key is absent
Lookup(entries, name) == SelectSeq(entries, LAMBDA e : e.name = name)

----------------------------------------------------------------------------
(* DataQuality page: the figures computed from the loaded dictionary.      *)
(* dictionaryData is <<>> for null and <<d>> for a loaded dictionary.      *)

\* rendering threw: React unmounts the page
TypeError == [kind |-> "TypeError"]

\* dictionaryData?.quality_metrics, with null read as no entries
qualityMetrics(dd) ==
    IF dd = <<>> \/ ~dd[1].quality_metrics.present THEN <<>>
    ELSE dd[1].quality_metrics.entries

\* Object.keys(qualityMetrics)
tableNames(dd) ==
    [k \in 1..Len(qualityMetrics(dd)) |-> qualityMetrics(dd)[k].name]

\* Math.round(sum / n) of values held in tenths
MathRoundMean(values) == RoundDiv(SumSeq(values), 10 * Len(values))

\* qualityMetrics[t]?.overall_quality_score ?? null, nulls filtered out
tableScores(dd) ==
    LET scored == SelectSeq(qualityMetrics(dd),
                     LAMBDA q : q.entry /\ q.overall_quality_score # NoNumber)
    IN  [k \in 1..Len(scored) |-> scored[k].overall_quality_score]

\* C13 mutant: the scores are taken for fractions of one
overallScoreAsFraction(dd) ==
    IF tableScores(dd) # <<>> THEN 100 * MathRoundMean(tableScores(dd))
    ELSE NoNumber

\* rounded mean of the table scores, or null
overallScore(dd) ==
    IF tableScores(dd) # <<>> THEN MathRoundMean(tableScores(dd))
    ELSE NoNumber

\* typeof q?.completeness === 'number', others filtered out
completenessValues(dd) ==
    LET known == SelectSeq(qualityMetrics(dd),
                    LAMBDA q : q.entry /\ q.completeness # NoNumber)
    IN  [k \in 1..Len(known) |-> known[k].completeness]

avgCompleteness(dd) ==
    IF completenessValues(dd) # <<>> THEN MathRoundMean(completenessValues(dd))
    ELSE NoNumber

\* null_percentage?.toFixed(1) inside the template string
toFixed1(tenths) ==
    IF tenths = NoNumber THEN "undefined"
    ELSE ToString(tenths \div 10) \o "." \o ToString(tenths % 10)

\* the issue pushed for one column of one table
ColumnIssue(tableName, cm) ==
    [column |-> tableName \o "." \o cm.name,
     issue |-> "Null values (" \o toFixed1(cm.null_percentage) \o "%)",
     count |-> cm.null_count,
     severity |-> IF cm.null_percentage # NoNumber /\ cm.null_percentage > 500
                  THEN "critical" ELSE "warning"]

\* cm.null_count && cm.null_count > 0
HasNulls(cm) == cm.null_count # NoNumber /\ cm.null_count > 0

RECURSIVE Flatten(_)
Flatten(ss) == IF ss = <<>> THEN <<>> ELSE ss[1] \o Flatten(Tail(ss))

\* the two nested loops over Object.entries
aggregateColumnIssues(dd) ==
    Flatten([k \in 1..Len(qualityMetrics(dd)) |->
        LET tq == qualityMetrics(dd)[k]
            cms == IF tq.entry /\ tq.has_column_metrics
                   THEN SelectSeq(tq.column_metrics, HasNulls) ELSE <<>>
        IN  [j \in 1..Len(cms) |-> ColumnIssue(tq.name, cms[j])]])

\* C12 mutant: the comparator is written the other way round
CompareCountAscending(a, b) == a.count - b.count

\* (a, b) => b.count - a.count
CompareCount(a, b) == b.count - a.count

RECURSIVE InsertSorted(_, _)
InsertSorted(x, s) ==
    IF s = <<>> THEN <<x>>
    ELSE IF CompareCount(s[1], x) <= 0
         THEN <<s[1]>> \o InsertSorted(x, Tail(s))
         ELSE <<x>> \o s

RECURSIVE SortInto(_, _)
SortInto(s, acc) ==
    IF s = <<>> THEN acc ELSE SortInto(Tail(s), InsertSorted(s[1], acc))

\* Array.prototype.sort with the comparator: a stable sort
Sort(s) == SortInto(s, <<>>)

\* slice(0, 10)
TopIssuesLimit == 10

topIssues(dd) ==
    LET sorted == Sort(aggregateColumnIssues(dd))
    IN  SubSeq(sorted, 1,
               IF Len(sorted) < TopIssuesLimit THEN Len(sorted)
               ELSE TopIssuesLimit)

\* metadata?.tables?.[tableName]
TableMetaOf(dd, name) ==
    IF dd = <<>> THEN <<>> ELSE Lookup(dd[1].metadata.tables, name)

\* one row of the table-level quality table
tableQualityRow(dd, tq) ==
    LET tm == TableMetaOf(dd, tq.name)
        colMetrics == IF tq.entry /\ tq.has_column_metrics
                      THEN tq.column_metrics ELSE <<>>
        score == IF tq.entry THEN tq.overall_quality_score ELSE NoNumber
    IN  [tableName |-> tq.name,
         score |-> score,
         completeness |-> IF tq.entry THEN tq.completeness ELSE NoNumber,
         totalRows |-> IF tq.entry /\ tq.total_rows # NoNumber
                       THEN tq.total_rows
                       ELSE IF tm # <<>> THEN tm[1].row_count ELSE NoNumber,
         columns |-> IF tm # <<>> THEN Len(tm[1].columns) ELSE Len(colMetrics),
         nullColumns |-> Len(SelectSeq(colMetrics, HasNulls)),
         status |-> IF score = NoNumber \/ score >= 800 THEN "good"
                    ELSE IF score >= 600 THEN "warning" ELSE "critical"]

tableQualityRows(dd) ==
    [k \in 1..Len(qualityMetrics(dd)) |->
        tableQualityRow(dd, qualityMetrics(dd)[k])]

\* qualityMetrics && tableNames.length > 0
hasQualityData(dd) == tableNames(dd) # <<>>

\* what the page shows once loading is over
DQ_Render(dd) ==
    IF ~hasQualityData(dd)
    THEN [kind |-> "No quality metrics available"]
    ELSE [kind |-> "metrics",
          overallScore |-> overallScore(dd),
          avgCompleteness |-> avgCompleteness(dd),
          topIssues |-> topIssues(dd),
          tableQualityRows |-> tableQualityRows(dd)]

----------------------------------------------------------------------------
(* DictionaryViewer page *)

\* the marker a helper returns where the JavaScript would throw
Thrown == "TypeError"

\* metadata?.tables ? Object.keys(metadata.tables) : []
DV_tableNames(dd) ==
    IF dd = <<>> THEN <<>>
    ELSE [k \in 1..Len(dd[1].metadata.tables) |-> dd[1].metadata.tables[k].name]

\* meta.tables?.[selectedTable] || null
getTableMeta(dd, sel) ==
    IF dd = <<>> \/ sel = "" THEN <<>>
    ELSE Lookup(dd[1].metadata.tables, sel)

\* C14 mutant: descs[selectedTable].description without the ?.
getAiDescriptionUnguarded(dd, sel) ==
    IF dd = <<>> \/ ~dd[1].ai_descriptions.present \/ sel = "" THEN Null
    ELSE LET e == Lookup(dd[1].ai_descriptions.entries, sel)
         IN  IF e = <<>> THEN Thrown
             ELSE IF e[1].description = "" THEN Null ELSE e[1].description

\* descs[selectedTable]?.description || null
getAiDescription(dd, sel) ==
    IF dd = <<>> \/ ~dd[1].ai_descriptions.present \/ sel = "" THEN Null
    ELSE LET e == Lookup(dd[1].ai_descriptions.entries, sel)
         IN  IF e = <<>> \/ e[1].description = "" THEN Null
             ELSE e[1].description

\* tableDescs.column_descriptions[colName] || ""
getColumnDescription(dd, sel, colName) ==
    IF dd = <<>> \/ ~dd[1].ai_descriptions.present \/ sel = "" THEN ""
    ELSE LET e == Lookup(dd[1].ai_descriptions.entries, sel)
         IN  IF e = <<>> THEN ""
             ELSE LET c == Lookup(e[1].column_descriptions, colName)
                  IN  IF c = <<>> THEN "" ELSE c[1].text

\* C15 mutant: the bar counts the columns of the selected table only
SummaryBarOfSelected(dd, sel) ==
    IF dd = <<>> THEN <<>>
    ELSE << [tables |-> dd[1].total_tables,
             columns |-> IF getTableMeta(dd, sel) = <<>> THEN 0
                         ELSE Len(getTableMeta(dd, sel)[1].columns)] >>

\* {dictionaryData && <Paper>...total_tables...total_columns...</Paper>}
SummaryBar(dd, sel) ==
    IF dd = <<>> THEN <<>>
    ELSE << [tables |-> dd[1].total_tables,
             columns |-> dd[1].total_columns] >>

\* the rows of the column table of the selected table
ColumnRows(dd, sel) ==
    LET tm == getTableMeta(dd, sel)
    IN  IF tm = <<>> THEN <<>>
        ELSE [i \in 1..Len(tm[1].columns) |->
                [name |-> tm[1].columns[i].name,
                 data_type |-> tm[1].columns[i].data_type,
                 description |->
                     LET desc == getColumnDescription(dd, sel,
                                                      tm[1].columns[i].name)
                     IN  IF desc = "" THEN "-" ELSE desc]]

\* what the page shows once loading is over
DV_Render(dd, sel) ==
    IF getAiDescription(dd, sel) = Thrown THEN TypeError
    ELSE [kind |-> "viewer",
          summary |-> SummaryBar(dd, sel),
          tableList |-> DV_tableNames(dd),
          selectedTable |-> sel,
          aiDescription |-> getAiDescription(dd, sel),
          columns |-> ColumnRows(dd, sel)]

----------------------------------------------------------------------------
(* The two dictionary pages as state machines *)

Pages == {"DataQuality", "DictionaryViewer"}

\* <CircularProgress /> while loading is true
Loading == [kind |-> "loading"]

\* dictionaries.length === 0
NoDictionaries == [kind |-> "No data dictionaries yet"]

FetchOutcomes == {"ok", "listFailed", "getFailed"}

\* DataQuality.fetchDictionaries (mount effect): list, then load the first
DQ_fetchDictionaries(outcome) ==
    /\ page = "DataQuality" /\ view = Loading
    /\ dictionaryData' = IF outcome = "ok" THEN <<store>> ELSE dictionaryData
    /\ view' = IF outcome = "listFailed" THEN NoDictionaries
               ELSE DQ_Render(dictionaryData')
    /\ UNCHANGED <<page, store, selectedTable>>
    /\ UNCHANGED <<chatVars, authVars, genVars, onbVars, moreVars>>

\* DataQuality.handleRefresh: loadDictionary(selectedDictId)
DQ_handleRefresh(ok) ==
    /\ page = "DataQuality" /\ view \notin {Loading, NoDictionaries}
    /\ dictionaryData' = IF ok THEN <<store>> ELSE dictionaryData
    /\ view' = DQ_Render(dictionaryData')
    /\ UNCHANGED <<page, store, selectedTable>>
    /\ UNCHANGED <<chatVars, authVars, genVars, onbVars, moreVars>>

\* DictionaryViewer.fetchDictionaries and loadDictionary
DV_fetchDictionaries(outcome) ==
    /\ page = "DictionaryViewer" /\ view = Loading
    /\ dictionaryData' = IF outcome = "ok" THEN <<store>> ELSE dictionaryData
    /\ selectedTable' = IF outcome = "ok" /\ DV_tableNames(<<store>>) # <<>>
                        THEN DV_tableNames(<<store>>)[1] ELSE selectedTable
    /\ view' = IF outcome = "listFailed" THEN NoDictionaries
               ELSE DV_Render(dictionaryData', selectedTable')
    /\ UNCHANGED <<page, store>>
    /\ UNCHANGED <<chatVars, authVars, genVars, onbVars, moreVars>>

\* onClick={() => setSelectedTable(table)} of the table list
DV_setSelectedTable(k) ==
    /\ page = "DictionaryViewer" /\ view \notin {Loading, NoDictionaries}
    /\ view.kind = "viewer"
    /\ k \in 1..Len(view.tableList)
    /\ selectedTable' = view.tableList[k]
    /\ view' = DV_Render(dictionaryData, selectedTable')
    /\ UNCHANGED <<page, store, dictionaryData>>
    /\ UNCHANGED <<chatVars, authVars, genVars, onbVars, moreVars>>

\* a signed-in user opens one of the two pages on a generated Dictionary
DictInit ==
    /\ ChatInit /\ surface = "FloatingAIChatbot"
    /\ token = "t1" /\ user = "{id:1}" /\ calls = <<>> /\ delivered = <<>>
    /\ page \in Pages
    /\ path = IF page = "DataQuality" THEN "/quality" ELSE "/dictionary"
    /\ store \in Dictionaries
    /\ dictionaryData = <<>>
    /\ selectedTable = ""
    /\ view = Loading
    /\ GenIdle /\ OnbIdle /\ MoreIdle

DictNext ==
    \/ \E o \in FetchOutcomes : DQ_fetchDictionaries(o)
    \/ \E ok \in BOOLEAN : DQ_handleRefresh(ok)
    \/ \E o \in FetchOutcomes : DV_fetchDictionaries(o)
    \/ \E k \in 1..Len(SourceTableNames) : DV_setSelectedTable(k)

DictSpec == DictInit /\ [][DictNext]_vars

----------------------------------------------------------------------------
(* Properties of the two dictionary pages *)

\* the columns of the loaded quality map that have nulls, read from the map
NullColumns ==
    IF dictionaryData = <<>> \/ ~dictionaryData[1].quality_metrics.present
    THEN {}
    ELSE LET es == dictionaryData[1].quality_metrics.entries
         IN  {[column |-> es[k].name \o "." \o es[k].column_metrics[j].name,
               count |-> es[k].column_metrics[j].null_count,
               percentage |-> es[k].column_metrics[j].null_percentage] :
                 <<k, j>> \in {<<k, j>> \in (1..Len(es)) \X (1..MaxCols + 1) :
                                  /\ j <= Len(es[k].column_metrics)
                                  /\ es[k].column_metrics[j].null_count > 0}}

Listed(c) ==
    \E k \in 1..Len(view.topIssues) : view.topIssues[k].column = c.column

\* only columns with nulls, non-increasing counts, at most ten entries, and
\* nothing left out has more nulls than something listed
RankedByNullCount ==
    LET top == view.topIssues
    IN  /\ \A k \in 1..Len(top) :
              /\ top[k].count > 0
              /\ \E c \in NullColumns :
                    c.column = top[k].column /\ c.count = top[k].count
        /\ \A k \in 1..Len(top) - 1 : top[k].count >= top[k + 1].count
        /\ Len(top) <= 10
        /\ \A c \in NullColumns :
              ~Listed(c) => \A k \in 1..Len(top) : c.count <= top[k].count

\* a listed column that is 60.3% null carries that label
Labelled(c) ==
    \A k \in 1..Len(view.topIssues) :
        (view.topIssues[k].column = c.column /\ c.percentage = 603)
            => view.topIssues[k].issue = "Null values (60.3%)"

\* C12 as stated: the top-issues list holds only columns with null_count > 0
\* in non-increasing null_count order, at most 10 of them, no column left
\* out has more nulls than a listed one, and a column with nulls (1,205 of
\* 2,000, labelled 60.3%) appears unless ten columns have more nulls.
C12_AppearsUnlessTenHaveMore ==
    view.kind = "metrics" =>
        /\ RankedByNullCount
        /\ \A c \in NullColumns :
              /\ Cardinality({d \in NullColumns : d.count > c.count}) < 10
                    => Listed(c)
              /\ Labelled(c)

\* C12 amended: as above, but a column with nulls appears unless ten other
\* columns have at least as many nulls.
C12_TopIssuesRanked ==
    view.kind = "metrics" =>
        /\ RankedByNullCount
        /\ \A c \in NullColumns :
              /\ Cardinality({d \in NullColumns \ {c} : d.count >= c.count}) < 10
                    => Listed(c)
              /\ Labelled(c)

\* C12 witness: ten issues are listed, the column with 1,205 nulls of 2,000
\* among them under its label, and a column with nulls is left out
C12_Witness ==
    /\ view.kind = "metrics"
    /\ Len(view.topIssues) = 10
    /\ \E k \in 1..10 : /\ view.topIssues[k].count = 1205
                        /\ view.topIssues[k].issue = "Null values (60.3%)"
    /\ \E c \in NullColumns : ~Listed(c)

\* the quality entries of the loaded dictionary that are not null
PresentEntries ==
    SelectSeq(qualityMetrics(dictionaryData), LAMBDA q : q.entry)

\* C13: every TableQuality entry has overall_quality_score and completeness
\* within [0, 100], and so are the overall score and the average
\* completeness the Data Quality page derives from the entries present.
C13_ScoresWithinRange ==
    /\ \A k \in 1..Len(PresentEntries) :
          /\ PresentEntries[k].overall_quality_score \in 0..1000
          /\ PresentEntries[k].completeness \in 0..1000
    /\ view.kind = "metrics" =>
          /\ view.overallScore \in
                IF PresentEntries = <<>> THEN {NoNumber} ELSE 0..100
          /\ view.avgCompleteness \in
                IF PresentEntries = <<>> THEN {NoNumber} ELSE 0..100

\* C13 witness: the page shows a score strictly inside the range, derived
\* from two tables of which one scores 100
C13_Witness ==
    /\ view.kind = "metrics"
    /\ view.overallScore \in 1..99
    /\ Len(PresentEntries) = 2
    /\ PresentEntries[1].overall_quality_score = 1000

\* the description entry of a table in the loaded dictionary, <<>> if none
DescriptionOf(name) ==
    IF ~dictionaryData[1].ai_descriptions.present THEN <<>>
    ELSE Lookup(dictionaryData[1].ai_descriptions.entries, name)

\* C14: with the description map or the quality map partly or wholly
\* absent no page fails; the viewer lists every table, shows every column
\* of the selected table and leaves out only the descriptions that are
\* missing; the quality page shows figures from the entries present, or
\* reports that no quality metrics are available.
C14_PartialDictionaryUsable ==
    /\ view.kind # "TypeError"
    /\ view.kind = "viewer" /\ dictionaryData # <<>> =>
          LET tables == dictionaryData[1].metadata.tables
              tm == Lookup(tables, selectedTable)
              d == DescriptionOf(selectedTable)
          IN  /\ view.tableList = [k \in 1..Len(tables) |-> tables[k].name]
              /\ tm # <<>>
              /\ Len(view.columns) = Len(tm[1].columns)
              /\ \A i \in 1..Len(view.columns) :
                    /\ view.columns[i].name = tm[1].columns[i].name
                    /\ view.columns[i].data_type = tm[1].columns[i].data_type
                    /\ (view.columns[i].description = "-") <=>
                          (d = <<>> \/ Lookup(d[1].column_descriptions,
                                              tm[1].columns[i].name) = <<>>)
              /\ (view.aiDescription = Null) <=> (d = <<>>)
    /\ page = "DataQuality" /\ dictionaryData # <<>> =>
          IF qualityMetrics(dictionaryData) = <<>>
          THEN view.kind = "No quality metrics available"
          ELSE /\ view.kind = "metrics"
               /\ Len(view.tableQualityRows) = Len(qualityMetrics(dictionaryData))
               /\ (view.overallScore = NoNumber) <=> (PresentEntries = <<>>)

\* C14 witness: the viewer shows all columns of a table that has no
\* description entry although the description map exists
C14_Witness ==
    /\ view.kind = "viewer" /\ dictionaryData # <<>>
    /\ dictionaryData[1].ai_descriptions.present
    /\ DescriptionOf(selectedTable) = <<>>
    /\ view.aiDescription = Null
    /\ Len(view.columns) = MaxCols
    /\ \A i \in 1..MaxCols : view.columns[i].description = "-"

\* C15: total_tables is the number of tables in the metadata and
\* total_columns the sum of their column counts, so the summary bar agrees
\* with the table list and with the column tables of the same Dictionary.
C15_TotalsMatchMetadata ==
    /\ dictionaryData # <<>> =>
          LET d == dictionaryData[1]
          IN  /\ d.total_tables = Len(d.metadata.tables)
              /\ d.total_columns =
                    SumSeq([k \in 1..Len(d.metadata.tables) |->
                               Len(d.metadata.tables[k].columns)])
    /\ view.kind = "viewer" /\ dictionaryData # <<>> =>
          /\ view.summary[1].tables = Len(view.tableList)
          /\ view.summary[1].columns =
                SumSeq([k \in 1..Len(view.tableList) |->
                           Len(ColumnRows(dictionaryData, view.tableList[k]))])

\* C15 witness: two tables with different column counts, the second one
\* selected
C15_Witness ==
    /\ view.kind = "viewer" /\ dictionaryData # <<>>
    /\ Len(view.tableList) = 2
    /\ selectedTable = view.tableList[2]
    /\ Len(view.columns) = 2
    /\ view.summary[1].columns = MaxCols + 2

----------------------------------------------------------------------------
(* Dictionary generation: the client call and the generation service *)

Connections == {"c1", "c2"}

\* generate requests a behaviour may send
MaxGenerations == 4

\* the stages of one pipeline run, in order
Stages == <<"introspecting", "analysing", "describing">>

\* DictionaryGenerate: the body of POST /dictionaries/generate
DictionaryGenerate(c) ==
    [connection_id |-> c, include_ai_descriptions |-> TRUE,
     include_quality_analysis |-> TRUE, include_sample_data |-> FALSE]

\* dictionariesAPI.generate(data): the request leaves the browser
dictionariesAPI_generate(c) ==
    /\ Len(genRequests) + Len(genReplies) < MaxGenerations
    /\ genRequests' = Append(genRequests, DictionaryGenerate(c))
    /\ UNCHANGED <<genRuns, genQueue, genReplies>>
    /\ UNCHANGED <<chatVars, authVars, dictVars, onbVars, moreVars>>

\* C16 mutant: the service keeps no record of the runs in flight
BusyNever(c) == FALSE

\* a generation for this Connection is in flight
Busy(c) == \E k \in 1..Len(genRuns) : genRuns[k].connection_id = c

Reply(c, outcome) == [connection_id |-> c, outcome |-> outcome]

NewRun(c) == [connection_id |-> c, stage |-> Stages[1]]

\* what the service may do with a request for a busy Connection
BusyPolicies == {"rejected", "queued"}

\* the service takes request i: it starts a run, or rejects or queues the
\* request when the Connection is busy
Gen_trigger(i, policy) ==
    /\ i \in 1..Len(genRequests)
    /\ LET c == genRequests[i].connection_id
       IN  IF Busy(c)
           THEN /\ genReplies' = Append(genReplies, Reply(c, policy))
                /\ genQueue' = IF policy = "queued"
                               THEN Append(genQueue, genRequests[i])
                               ELSE genQueue
                /\ UNCHANGED genRuns
           ELSE /\ genReplies' = Append(genReplies, Reply(c, "started"))
                /\ genRuns' = Append(genRuns, NewRun(c))
                /\ UNCHANGED genQueue
    /\ genRequests' = RemoveAt(genRequests, i)
    /\ UNCHANGED <<chatVars, authVars, dictVars, onbVars, moreVars>>

\* first queued request for a Connection, 0 if none
QueuedFor(c) ==
    LET ks == {k \in 1..Len(genQueue) : genQueue[k].connection_id = c}
    IN  IF ks = {} THEN 0 ELSE CHOOSE k \in ks : \A j \in ks : k <= j

StageIndex(stage) == CHOOSE n \in 1..Len(Stages) : Stages[n] = stage

\* run k finishes its stage; after the last stage the Dictionary is saved
\* and the first request queued for the Connection starts
Gen_advance(k) ==
    /\ k \in 1..Len(genRuns)
    /\ LET run == genRuns[k]
           n == StageIndex(run.stage)
           q == QueuedFor(run.connection_id)
       IN  IF n < Len(Stages)
           THEN /\ genRuns' = [genRuns EXCEPT ![k].stage = Stages[n + 1]]
                /\ UNCHANGED genQueue
           ELSE IF q = 0
                THEN /\ genRuns' = RemoveAt(genRuns, k)
                     /\ UNCHANGED genQueue
                ELSE /\ genRuns' = Append(RemoveAt(genRuns, k),
                                          NewRun(run.connection_id))
                     /\ genQueue' = RemoveAt(genQueue, q)
    /\ UNCHANGED <<genRequests, genReplies>>
    /\ UNCHANGED <<chatVars, authVars, dictVars, onbVars, moreVars>>

GenInit ==
    /\ ChatInit /\ surface = "FloatingAIChatbot"
    /\ token = "t1" /\ user = "{id:1}" /\ path = "/explorer"
    /\ calls = <<>> /\ delivered = <<>>
    /\ PagesIdle

GenNext ==
    \/ \E c \in Connections : dictionariesAPI_generate(c)
    \/ \E i \in 1..MaxGenerations, p \in BusyPolicies : Gen_trigger(i, p)
    \/ \E k \in 1..MaxGenerations : Gen_advance(k)

GenSpec == GenInit /\ [][GenNext]_vars

\* the runs in flight for one Connection
RunsOf(c) == {k \in 1..Len(genRuns) : genRuns[k].connection_id = c}

\* this step answers a request for a Connection that has a run in flight
AnswersBusy(c) ==
    /\ Len(genReplies') = Len(genReplies) + 1
    /\ genReplies'[Len(genReplies')].connection_id = c
    /\ RunsOf(c) # {}

\* C16: at most one generation runs per Connection at any time (so never
\* two introspections of the same Connection), and a request that arrives
\* while one is in flight is rejected or queued and starts no run.
C16_OneGenerationPerConnection ==
    /\ [](\A c \in Connections : Cardinality(RunsOf(c)) <= 1)
    /\ [][\A c \in Connections :
             AnswersBusy(c) =>
                 /\ genReplies'[Len(genReplies')].outcome \in BusyPolicies
                 /\ Cardinality(RunsOf(c)') = Cardinality(RunsOf(c))]_vars

\* C16 witness: both Connections have a run in flight, and for one of them
\* a request was rejected and another one is queued
C16_Witness ==
    /\ \A c \in Connections : Cardinality(RunsOf(c)) = 1
    /\ \E c \in Connections :
          /\ \E k \in 1..Len(genReplies) :
                genReplies[k] = Reply(c, "rejected")
          /\ QueuedFor(c) # 0

----------------------------------------------------------------------------
(* Signup page, Dashboard mount effect and WelcomeWizard.                  *)
(* A password is the sequence of its characters.                           *)

\* pending setTimeout callbacks of handleSignup
MaxTimers == 1

Repeat(ch, n) == [i \in 1..n |-> ch]

Names == {"", "Ann"}
Emails == {"", "ann@example.com"}

\* what may be typed into the password fields: 7 characters of all kinds,
\* 8 lower-case letters, 12 characters of all kinds
Passwords ==
    {<<"A", "1", "!">> \o Repeat("a", 4),
     Repeat("a", 8),
     <<"A", "1", "!">> \o Repeat("a", 9)}

Fields == {"name", "email", "password", "confirmPassword"}

ValuesOf(field) ==
    CASE field = "name"  -> Names
      [] field = "email" -> Emails
      [] OTHER           -> Passwords \cup {<<>>}

\* /[a-z]/, /[A-Z]/, /[0-9]/ and /[^a-zA-Z0-9]/ on one character
IsLower(ch) == ch \in {"a"}
IsUpper(ch) == ch \in {"A"}
IsDigit(ch) == ch \in {"1"}
IsOther(ch) == ~IsLower(ch) /\ ~IsUpper(ch) /\ ~IsDigit(ch)

\* regex.test(pass): some character matches
Test(class(_), pass) == \E i \in 1..Len(pass) : class(pass[i])

Min(a, b) == IF a < b THEN a ELSE b

getPasswordStrength(pass) ==
    Min((IF Len(pass) >= 8 THEN 25 ELSE 0)
        + (IF Len(pass) >= 12 THEN 25 ELSE 0)
        + (IF Test(IsLower, pass) /\ Test(IsUpper, pass) THEN 25 ELSE 0)
        + (IF Test(IsDigit, pass) THEN 15 ELSE 0)
        + (IF Test(IsOther, pass) THEN 10 ELSE 0),
        100)

getStrengthLabel(strength) ==
    IF strength = 0 THEN ""
    ELSE IF strength < 40 THEN "Weak"
    ELSE IF strength < 70 THEN "Medium"
    ELSE "Strong"

PasswordsDoNotMatch == "Passwords do not match"
PasswordTooShort == "Password must be at least 8 characters"

\* C17 mutant: the length check asks for 6 characters
ValidateMinSix(f) ==
    IF f.password # f.confirmPassword THEN PasswordsDoNotMatch
    ELSE IF Len(f.password) < 6 THEN PasswordTooShort
    ELSE ""

\* the two checks of handleSignup: the error they set, "" if they pass
Validate(f) ==
    IF f.password # f.confirmPassword THEN PasswordsDoNotMatch
    ELSE IF Len(f.password) < 8 THEN PasswordTooShort
    ELSE ""

\* the values the setTimeout callback closes over
Closure(f) == [name |-> f.name, email |-> f.email, password |-> f.password]

\* old utils/auth.ts: !!localStorage.getItem("auth")
isAuthenticatedOld == Truthy(localStorage.auth)

\* the Signup component unmounts: its useState cells are gone
SignupUnmounted ==
    /\ form' = EmptyForm /\ error' = "" /\ signupIsLoading' = FALSE

\* the Dashboard mount effect: shouldShow, setTimeout(setShowWelcome, 500);
\* the WelcomeWizard inside it mounts with activeStep 0
DashboardMounted(storage) ==
    /\ showWelcome' = FALSE
    /\ welcomeTimer' = (storage.showWelcomeWizard = "true")
    /\ activeStep' = 0

\* the Dashboard unmounts: its state is gone and its timer finds no component
DashboardUnmounted ==
    /\ showWelcome' = FALSE /\ welcomeTimer' = FALSE /\ activeStep' = 0

\* onChange of the four text fields
Signup_setField(field, value) ==
    /\ path = "/signup"
    /\ value \in ValuesOf(field)
    /\ value # form[field]
    /\ form' = [form EXCEPT ![field] = value]
    /\ UNCHANGED <<error, signupIsLoading, timers, localStorage, showWelcome,
                   welcomeTimer, activeStep, signedUpSince>>
    /\ UNCHANGED <<chatVars, authVars, dictVars, genVars, moreVars>>

\* handleSignup up to setTimeout
handleSignup ==
    /\ path = "/signup"
    /\ IF Validate(form) # ""
       THEN /\ error' = Validate(form)
            /\ UNCHANGED <<signupIsLoading, timers>>
       ELSE /\ Len(timers) < MaxTimers
            /\ error' = ""
            /\ signupIsLoading' = TRUE
            /\ timers' = Append(timers, Closure(form))
    /\ UNCHANGED <<form, localStorage, showWelcome, welcomeTimer, activeStep,
                   signedUpSince>>
    /\ UNCHANGED <<chatVars, authVars, dictVars, genVars, moreVars>>

\* the Create Account button: disabled while loading or a field is empty
Signup_ClickCreate ==
    /\ ~(signupIsLoading \/ form.name = "" \/ form.email = ""
         \/ form.password = <<>> \/ form.confirmPassword = <<>>)
    /\ handleSignup

\* handleKeyPress: Enter in any of the four fields
Signup_handleKeyPress == handleSignup

\* the setTimeout callback of handleSignup: signupUser, setAuthenticated,
\* the wizard flag, navigate("/dashboard"). Same delay: first set, first run.
Signup_timeout ==
    /\ timers # <<>>
    /\ timers' = Tail(timers)
    /\ localStorage' = [user |-> <<Head(timers)>>, auth |-> "true",
                        showWelcomeWizard |-> "true"]
    /\ signedUpSince' = TRUE
    /\ path' = "/dashboard"
    /\ IF path = "/dashboard"
       THEN UNCHANGED <<form, error, signupIsLoading, showWelcome,
                        welcomeTimer, activeStep>>
       ELSE SignupUnmounted /\ DashboardMounted(localStorage')
    /\ UNCHANGED <<token, user, calls, delivered>>
    /\ UNCHANGED <<chatVars, dictVars, genVars, moreVars>>

OnbPaths == {"/", "/signup", "/dashboard"}

\* <ProtectedRoute> around the Dashboard
OnbRoute(p) == IF p = "/dashboard" /\ ~isAuthenticatedOld THEN "/login" ELSE p

\* a link or a typed URL takes the browser to another page
Onb_navigate(p) ==
    /\ OnbRoute(p) # path
    /\ path' = OnbRoute(p)
    /\ IF path' = "/dashboard"
       THEN SignupUnmounted /\ DashboardMounted(localStorage)
       ELSE SignupUnmounted /\ DashboardUnmounted
    /\ UNCHANGED <<timers, localStorage, signedUpSince>>
    /\ UNCHANGED <<token, user, calls, delivered>>
    /\ UNCHANGED <<chatVars, dictVars, genVars, moreVars>>

\* setTimeout(() => setShowWelcome(true), 500) of the mount effect fires
Dashboard_showWelcomeTimeout ==
    /\ path = "/dashboard" /\ welcomeTimer
    /\ showWelcome' = TRUE
    /\ welcomeTimer' = FALSE
    /\ UNCHANGED <<form, error, signupIsLoading, timers, localStorage,
                   activeStep, signedUpSince>>
    /\ UNCHANGED <<chatVars, authVars, dictVars, genVars, moreVars>>

\* const steps = ['Welcome', 'API Key', 'Database', 'Complete']
steps == <<"Welcome", "API Key", "Database", "Complete">>

\* localStorage.removeItem('showWelcomeWizard'); onClose()
CloseWizard ==
    /\ localStorage' = [localStorage EXCEPT !.showWelcomeWizard = Null]
    /\ showWelcome' = FALSE
    /\ signedUpSince' = FALSE

\* C20 mutant: Continue advances on every step
handleNextAlwaysAdvances ==
    /\ path = "/dashboard" /\ showWelcome
    /\ activeStep' = activeStep + 1
    /\ UNCHANGED <<localStorage, showWelcome, signedUpSince>>
    /\ UNCHANGED <<form, error, signupIsLoading, timers, welcomeTimer>>
    /\ UNCHANGED <<chatVars, authVars, dictVars, genVars, moreVars>>

\* handleNext: the Continue / Go to Dashboard button
handleNext ==
    /\ path = "/dashboard" /\ showWelcome
    /\ IF activeStep = Len(steps) - 1
       THEN CloseWizard /\ UNCHANGED activeStep
       ELSE /\ activeStep' = activeStep + 1
            /\ UNCHANGED <<localStorage, showWelcome, signedUpSince>>
    /\ UNCHANGED <<form, error, signupIsLoading, timers, welcomeTimer>>
    /\ UNCHANGED <<chatVars, authVars, dictVars, genVars, moreVars>>

\* handleBack: the left button is Back on every step but the first
handleBack ==
    /\ path = "/dashboard" /\ showWelcome
    /\ activeStep # 0
    /\ activeStep' = activeStep - 1
    /\ UNCHANGED <<form, error, signupIsLoading, timers, localStorage,
                   showWelcome, welcomeTimer, signedUpSince>>
    /\ UNCHANGED <<chatVars, authVars, dictVars, genVars, moreVars>>

\* C19 mutant: skipping closes the dialog and leaves the flag in place
handleSkipKeepsFlag ==
    /\ path = "/dashboard" /\ showWelcome
    /\ showWelcome' = FALSE
    /\ signedUpSince' = FALSE
    /\ UNCHANGED <<form, error, signupIsLoading, timers, localStorage,
                   welcomeTimer, activeStep>>
    /\ UNCHANGED <<chatVars, authVars, dictVars, genVars, moreVars>>

\* handleSkip: the close icon, the backdrop, and Skip Setup on step 0
handleSkip ==
    /\ path = "/dashboard" /\ showWelcome
    /\ CloseWizard
    /\ UNCHANGED <<form, error, signupIsLoading, timers, welcomeTimer,
                   activeStep>>
    /\ UNCHANGED <<chatVars, authVars, dictVars, genVars, moreVars>>

OnbInit == ChatInit /\ surface = "FloatingAIChatbot" /\ AuthIdle /\ PagesIdle

OnbNext ==
    \/ \E field \in Fields :
          \E value \in ValuesOf(field) : Signup_setField(field, value)
    \/ Signup_ClickCreate
    \/ Signup_handleKeyPress
    \/ Signup_timeout
    \/ \E p \in OnbPaths : Onb_navigate(p)
    \/ Dashboard_showWelcomeTimeout
    \/ handleNext
    \/ handleBack
    \/ handleSkip

OnbSpec == OnbInit /\ [][OnbNext]_vars


----------------------------------------------------------------------------
(* Signup and Welcome Wizard properties (OnbSpec)                          *)

\* the submitted form fails one of the two checks of handleSignup
Refused == Len(form.password) < 8 \/ form.password # form.confirmPassword

\* C17: when the password is shorter than 8 characters or differs from its
\* confirmation, handleSignup stores no user, does not mark the session
\* authenticated, does not navigate, schedules nothing that would, and shows
\* an error; so every user scheduled or stored has at least 8 characters
C17_ShortOrUnconfirmedRefused ==
    /\ [][(handleSignup /\ Refused) =>
             /\ localStorage' = localStorage
             /\ isAuthenticatedOld' = isAuthenticatedOld
             /\ path' = path
             /\ timers' = timers
             /\ error' \in {PasswordsDoNotMatch, PasswordTooShort}]_vars
    /\ [](\A k \in 1..Len(timers) : Len(timers[k].password) >= 8)
    /\ [](\A k \in 1..Len(localStorage.user) :
             Len(localStorage.user[k].password) >= 8)

\* C17 witness: a matching 7-character password was submitted and refused
\* with the length error while nothing is stored and the page is unchanged
C17_Witness ==
    /\ path = "/signup" /\ error = PasswordTooShort
    /\ Len(form.password) = 7 /\ form.password = form.confirmPassword
    /\ form.name # "" /\ form.email # ""
    /\ localStorage = EmptyStorage /\ timers = <<>>


\* C18: handleSignup never stores a user whose password the strength meter
\* rates Weak, that is whose getPasswordStrength score is below 40
C18_WeakNeverAccepted ==
    \A k \in 1..Len(localStorage.user) :
        /\ getPasswordStrength(localStorage.user[k].password) >= 40
        /\ getStrengthLabel(
               getPasswordStrength(localStorage.user[k].password)) # "Weak"


\* a step that mounts the Dashboard
MountsDashboard == path # "/dashboard" /\ path' = "/dashboard"

\* a step that skips (Skip Setup, close icon, backdrop) or completes the wizard
Dismisses == handleSkip \/ (handleNext /\ activeStep = Len(steps) - 1)

\* C19: a Dashboard mount arms the opening of the wizard if and only if a
\* signup has completed since the wizard was last skipped or completed; the
\* wizard becomes visible only through that mount; and skipping or
\* completing it closes it so that no later mount opens it again until
\* another signup completes
C19_WizardForNewUsersUntilDismissed ==
    /\ [][MountsDashboard => (welcomeTimer' <=> signedUpSince')]_vars
    /\ [][(showWelcome' /\ ~showWelcome) =>
             path = "/dashboard" /\ welcomeTimer /\ signedUpSince]_vars
    /\ [][Dismisses => ~showWelcome' /\ ~welcomeTimer' /\ ~signedUpSince']_vars
    /\ [](showWelcome \/ welcomeTimer => path = "/dashboard")

\* C19 witness: the wizard of a signed-up user was dismissed, a later signup
\* is still pending, and the Dashboard was mounted again without the wizard
C19_Witness ==
    /\ path = "/dashboard" /\ localStorage.user # <<>>
    /\ ~signedUpSince /\ timers # <<>>
    /\ ~showWelcome /\ ~welcomeTimer /\ activeStep = 0


\* C20: under every sequence of Continue, Back, Skip and close actions the
\* active step stays within 0..3; Continue on the last step closes the wizard
\* instead of advancing; Back happens only from a step above 0
C20_StepWithinFour ==
    /\ [](activeStep \in 0..3)
    /\ [][(handleNext /\ activeStep = 3) =>
             ~showWelcome' /\ activeStep' = 3]_vars
    /\ [][(handleNext /\ activeStep < 3) =>
             showWelcome' /\ activeStep' = activeStep + 1]_vars
    /\ [][handleBack => activeStep > 0 /\ activeStep' = activeStep - 1]_vars
    /\ [][handleSkip => activeStep' = activeStep]_vars

\* C20 witness: the wizard was closed on its last step
C20_Witness ==
    /\ path = "/dashboard" /\ activeStep = 3 /\ ~showWelcome
    /\ localStorage.showWelcomeWizard = Null /\ localStorage.user # <<>>


----------------------------------------------------------------------------
(* Export of the mock DictionaryViewer: exportMarkdown.                    *)
(* A text is the sequence of its characters, "\n" the line break.          *)

\* columns a table of the exported record may have
MaxExportCols == 2

\* "# Data Dictionary\n\n"
Title ==
    <<"#", " ", "D", "a", "t", "a", " ", "D", "i", "c", "t", "i", "o",
    "n", "a", "r", "y", "\n", "\n">>

\* "| Column | Type | Nullable | Description |"
HeaderRow ==
    <<"|", " ", "C", "o", "l", "u", "m", "n", " ", "|", " ", "T", "y",
    "p", "e", " ", "|", " ", "N", "u", "l", "l", "a", "b", "l", "e", " ",
    "|", " ", "D", "e", "s", "c", "r", "i", "p", "t", "i", "o", "n", " ",
    "|">>

\* "|--------|------|----------|-------------|"
SeparatorRow ==
    <<"|", "-", "-", "-", "-", "-", "-", "-", "-", "|", "-", "-", "-",
    "-", "-", "-", "|", "-", "-", "-", "-", "-", "-", "-", "-", "-", "-",
    "|", "-", "-", "-", "-", "-", "-", "-", "-", "-", "-", "-", "-", "-",
    "|">>

\* "## "
HeadingMark ==
    <<"#", "#", " ">>

ExportTableNames == {<<"t", "1">>, <<"t", "2">>}

\* descriptions: plain, with a pipe, with a line break
ExportDescriptions ==
    {<<"k", "e", "y">>,
     <<"a", "|", "b">>,
     <<"a", "\n", "b">>}

ExportColumns ==
    [column : {<<"i", "d">>}, type : {<<"I", "N", "T">>}, nullable : BOOLEAN,
     description : ExportDescriptions]

ColumnLists ==
    UNION { [1..n -> ExportColumns] : n \in 0..MaxExportCols }

\* a Record<string, Column[]>: its entries in the order of its keys
ExportInputs ==
    { <<>> }
    \cup { <<[table |-> t, columns |-> c]>> :
              t \in ExportTableNames, c \in ColumnLists }
    \cup { <<[table |-> <<"t", "1">>, columns |-> c1],
             [table |-> <<"t", "2">>, columns |-> c2]>> :
              c1 \in ColumnLists, c2 \in ColumnLists }

\* the concatenation of a sequence of texts
RECURSIVE Concat(_)
Concat(texts) ==
    IF texts = <<>> THEN <<>> ELSE Head(texts) \o Concat(Tail(texts))

\* col.nullable ? "Yes" : "No"
YesNo(b) == IF b THEN <<"Y", "e", "s">> ELSE <<"N", "o">>

\* the template literal of one column: "| c | t | Yes | d |\n"
columnRow(col) ==
    <<"|", " ">> \o col.column \o <<" ", "|", " ">> \o col.type
    \o <<" ", "|", " ">> \o YesNo(col.nullable)
    \o <<" ", "|", " ">> \o col.description \o <<" ", "|", "\n">>

\* the body of the forEach over Object.entries(data)
tableSection(entry) ==
    HeadingMark \o entry.table \o <<"\n", "\n">>
    \o HeaderRow \o <<"\n">>
    \o SeparatorRow \o <<"\n">>
    \o Concat([j \in 1..Len(entry.columns) |-> columnRow(entry.columns[j])])
    \o <<"\n">>

\* the text exportMarkdown hands to download
exportMarkdown(entries) ==
    Title \o Concat([k \in 1..Len(entries) |-> tableSection(entries[k])])

\* the Export button with the markdown preference
handleExport ==
    /\ md' = exportMarkdown(exportData)
    /\ UNCHANGED exportData
    /\ UNCHANGED <<chatVars, authVars, dictVars, genVars, onbVars, loadVars,
                   connVars, dashVars>>

ExportInit ==
    /\ ChatInit /\ surface = "FloatingAIChatbot"
    /\ token = "t1" /\ user = "{id:1}" /\ path = "/dictionary"
    /\ calls = <<>> /\ delivered = <<>>
    /\ DictIdle /\ GenIdle /\ OnbIdle /\ LoadIdle /\ ConnIdle /\ DashIdle
    /\ exportData \in ExportInputs
    /\ md = <<>>

ExportNext == handleExport

ExportSpec == ExportInit /\ [][ExportNext]_vars

\* the positions of the line breaks of a text
Breaks(text) == {i \in 1..Len(text) : text[i] = "\n"}

\* the k-th smallest member of a set of positions
Nth(positions, k) ==
    CHOOSE i \in positions : Cardinality({j \in positions : j < i}) = k - 1

\* the lines of a text, split at "\n"
SplitLines(text) ==
    LET br == Breaks(text)
        n == Cardinality(br)
        from(k) == IF k = 1 THEN 1 ELSE Nth(br, k - 1) + 1
        to(k) == IF k = n + 1 THEN Len(text) ELSE Nth(br, k) - 1
    IN  [k \in 1..(n + 1) |-> SubSeq(text, from(k), to(k))]

StartsWith(line, prefix) ==
    Len(line) >= Len(prefix) /\ SubSeq(line, 1, Len(prefix)) = prefix

\* the line numbers of the section headings, in document order
Headings(doc) ==
    LET at == {k \in 1..Len(doc) : StartsWith(doc[k], HeadingMark)}
    IN  [s \in 1..Cardinality(at) |-> Nth(at, s)]

\* the non-empty lines of section s below its heading
SectionRows(doc, heads, s) ==
    LET first == heads[s] + 1
        last == IF s < Len(heads) THEN heads[s + 1] - 1 ELSE Len(doc)
    IN  SelectSeq(SubSeq(doc, first, last), LAMBDA l : l # <<>>)

----------------------------------------------------------------------------
(* Loading on the DictionaryViewer and DataQuality pages: the selector,    *)
(* the refresh button and the requests they start.                         *)

\* list and get requests one page may have in flight
MaxLoads == 2

\* await dictionariesAPI.list() of fetchDictionaries, started by the mount
\* effect
ListCall == [api |-> "list", dictId |-> "", awaited |-> "fetchDictionaries"]

\* await dictionariesAPI.get(dictId) of loadDictionary, and who awaits it
GetCall(dictId, caller) == [api |-> "get", dictId |-> dictId, awaited |-> caller]

\* loadDictionary up to its await
loadDictionary(dictId, caller, pending) ==
    /\ loadingDict' = TRUE
    /\ loads' = Append(pending, GetCall(dictId, caller))

\* the list request settles: fetchDictionaries after its first await
Load_listSettled(k, ok, body) ==
    /\ k \in 1..Len(loads) /\ loads[k].api = "list"
    /\ IF ok /\ Len(body) > 0
       THEN /\ dictionaries' = body
            /\ chosenDictId' = body[1].id
            /\ loadDictionary(body[1].id, "fetchDictionaries",
                              RemoveAt(loads, k))
            /\ UNCHANGED pageLoading
       ELSE /\ dictionaries' = IF ok THEN body ELSE dictionaries
            /\ pageLoading' = FALSE
            /\ loads' = RemoveAt(loads, k)
            /\ UNCHANGED <<chosenDictId, loadingDict>>
    /\ UNCHANGED <<page, store, dictionaryData, selectedTable, view>>
    /\ UNCHANGED <<surface, mounted, now, messages, inputValue, isLoading,
                   selectedDictId, suggestedQuestions, loadingDicts, isOpen,
                   dictionaryId, inflight, listOutcome, notices>>
    /\ UNCHANGED <<authVars, genVars, onbVars, expVars, connVars, dashVars>>

\* handleDictChange: onChange of the selector
Load_handleDictChange(dictId) ==
    /\ ~pageLoading /\ Len(dictionaries) > 0
    /\ dictId \in {dictionaries[i].id : i \in 1..Len(dictionaries)}
    /\ Len(loads) < MaxLoads
    /\ chosenDictId' = dictId
    /\ loadDictionary(dictId, "handleDictChange", loads)
    /\ UNCHANGED pageLoading
    /\ UNCHANGED <<chatVars, authVars, dictVars, genVars, onbVars, expVars,
                   connVars, dashVars>>

\* handleRefresh: the refresh button of DataQuality
Load_handleRefresh ==
    /\ page = "DataQuality"
    /\ ~pageLoading /\ Len(dictionaries) > 0
    /\ Len(loads) < MaxLoads
    /\ chosenDictId # ""
    /\ loadDictionary(chosenDictId, "handleRefresh", loads)
    /\ UNCHANGED <<chosenDictId, pageLoading>>
    /\ UNCHANGED <<chatVars, authVars, dictVars, genVars, onbVars, expVars,
                   connVars, dashVars>>

\* a get request settles: loadDictionary after its await, then the finally
\* of fetchDictionaries when that is the caller
Load_getSettled(k, ok) ==
    /\ k \in 1..Len(loads) /\ loads[k].api = "get"
    /\ dictionaryData' = IF ok THEN <<[id |-> loads[k].dictId]>>
                         ELSE dictionaryData
    /\ loadingDict' = FALSE
    /\ pageLoading' = IF loads[k].awaited = "fetchDictionaries" THEN FALSE
                      ELSE pageLoading
    /\ loads' = RemoveAt(loads, k)
    /\ UNCHANGED <<chosenDictId, page, store, selectedTable, view>>
    /\ UNCHANGED <<chatVars, authVars, genVars, onbVars, expVars, connVars,
                   dashVars>>

LoadInit ==
    /\ ChatInit /\ surface = "FloatingAIChatbot"
    /\ token = "t1" /\ user = "{id:1}" /\ calls = <<>> /\ delivered = <<>>
    /\ page \in Pages
    /\ path = IF page = "DataQuality" THEN "/quality" ELSE "/dictionary"
    /\ store = <<>> /\ dictionaryData = <<>> /\ selectedTable = ""
    /\ view = <<>>
    /\ GenIdle /\ OnbIdle /\ ExpIdle /\ ConnIdle /\ DashIdle
    /\ chosenDictId = "" /\ pageLoading = TRUE /\ loadingDict = FALSE
    /\ loads = <<ListCall>>

LoadNext ==
    \/ \E k \in 1..MaxLoads, ok \in BOOLEAN, body \in ListBodies :
          Load_listSettled(k, ok, body)
    \/ \E d \in DictIds : Load_handleDictChange(d)
    \/ Load_handleRefresh
    \/ \E k \in 1..MaxLoads, ok \in BOOLEAN : Load_getSettled(k, ok)

LoadSpec == LoadInit /\ [][LoadNext]_vars

\* C22: whenever no dictionary load is in flight, the dictionary whose data
\* is displayed is the one chosen in the selector
C22_DisplayedIsSelected ==
    (loads = <<>> /\ dictionaryData # <<>>) =>
        dictionaryData[1].id = chosenDictId


----------------------------------------------------------------------------
(* Chat components: suggestions and sends under concurrent requests        *)

\* C23: in ChatInterface, once all outstanding requests have settled, every
\* suggested question on display was produced for the selected dictionary
C23_SuggestionsOfSelectedDictionary ==
    (surface = "ChatInterface" /\ inflight = <<>>) =>
        \A k \in 1..Len(suggestedQuestions) :
            \E j \in 1..Len(SuggestionsFor(selectedDictId)) :
                suggestedQuestions[k] = SuggestionsFor(selectedDictId)[j]


\* the chat query requests in flight
QueriesInFlight == {i \in 1..Len(inflight) : inflight[i].kind = "query"}

\* C24: each chat component has at most one chat query request in flight,
\* and isLoading is true while it is; a send by button or Enter key while
\* isLoading is true sends no request and appends no message
C24_OneQueryInFlight ==
    /\ [](Cardinality(QueriesInFlight) <= 1)
    /\ [](mounted /\ QueriesInFlight # {} => isLoading)
    /\ [][isLoading /\ (CI_ClickSend \/ CI_handleKeyPress
                        \/ FC_ClickSend \/ FC_handleKeyPress) =>
             inflight' = inflight /\ messages' = messages]_vars
    /\ [][isLoading =>
             Cardinality(QueriesInFlight') <= Cardinality(QueriesInFlight)]_vars

\* C24 witness: a query is in flight, isLoading is true and the next question
\* is already typed, so that Enter reaches the guard of handleSendMessage
C24_Witness ==
    /\ mounted /\ isLoading /\ Cardinality(QueriesInFlight) = 1
    /\ Trim(inputValue) # "" /\ Len(inflight) < MaxInflight
    /\ Len(messages) + 2 <= MaxMessages


----------------------------------------------------------------------------
(* ConnectionManager: the connection cards, the Add/Edit dialog and the    *)
(* calls of connectionsAPI.                                                *)

\* connections the backend may hold
MaxConnections == 3
\* API calls the page may have in flight
MaxConnCalls == 2

\* the ids the backend gives to connections, in the order of creation
IdPool == <<"c1", "c2", "c3", "c4", "c5">>

ConnNames == {"prod2"}
ConnHosts == {"h"}
ConnPasswords == {"pw"}

\* what may be typed into a field of the dialog
FormValues(field) ==
    CASE field = "name" -> ConnNames
      [] field = "host" -> ConnHosts
      [] OTHER          -> ConnPasswords

\* the connections of the backend before the page is opened
StoredConnections ==
    << [id |-> "c1", name |-> "prod", host |-> "h"],
       [id |-> "c2", name |-> "dev", host |-> "h"] >>

\* connectionTables[id] !== undefined
HasTables(id) == \E p \in connectionTables : p[1] = id

\* { ...prev, [id]: tableCount }
WithTables(prev, id, tableCount) ==
    {p \in prev : p[1] # id} \cup {<<id, tableCount>>}

\* fetchConnections up to its await
fetchConnections(pending) ==
    /\ connLoading' = TRUE
    /\ connCalls' = Append(pending, [api |-> "list"])

\* fetchConnections after await connectionsAPI.list()
Conn_listSettled(k, ok) ==
    /\ k \in 1..Len(connCalls) /\ connCalls[k].api = "list"
    /\ connections' = IF ok THEN connStore ELSE connections
    /\ connLoading' = FALSE
    /\ connCalls' = RemoveAt(connCalls, k)
    /\ UNCHANGED <<connStore, openDialog, editingConnection, formData,
                   connecting, connectionTables>>
    /\ UNCHANGED <<chatVars, authVars, dictVars, genVars, onbVars, expVars,
                   loadVars, dashVars>>

\* handleOpenDialog: Add Connection (i = 0) or the Edit icon of card i
handleOpenDialog(i) ==
    /\ ~openDialog
    /\ i \in 0..Len(connections)
    /\ i > 0 => ~connLoading
    /\ editingConnection' = IF i > 0 THEN <<connections[i]>> ELSE <<>>
    /\ formData' = IF i > 0
                   THEN [name |-> connections[i].name,
                         host |-> connections[i].host, password |-> ""]
                   ELSE EmptyFormData
    /\ openDialog' = TRUE
    /\ UNCHANGED <<connStore, connections, connLoading, connecting,
                   connectionTables, connCalls>>
    /\ UNCHANGED <<chatVars, authVars, dictVars, genVars, onbVars, expVars,
                   loadVars, dashVars>>

\* setOpenDialog(false); setEditingConnection(null); setTestResult(null)
CloseDialog == openDialog' = FALSE /\ editingConnection' = <<>>

\* handleCloseDialog: Cancel or the backdrop
handleCloseDialog ==
    /\ openDialog
    /\ CloseDialog
    /\ UNCHANGED <<connStore, connections, connLoading, formData, connecting,
                   connectionTables, connCalls>>
    /\ UNCHANGED <<chatVars, authVars, dictVars, genVars, onbVars, expVars,
                   loadVars, dashVars>>

\* onChange of a field of the dialog
Conn_setFormData(field, value) ==
    /\ openDialog
    /\ value \in FormValues(field)
    /\ value # formData[field]
    /\ formData' = [formData EXCEPT ![field] = value]
    /\ UNCHANGED <<connStore, connections, connLoading, openDialog,
                   editingConnection, connecting, connectionTables, connCalls>>
    /\ UNCHANGED <<chatVars, authVars, dictVars, genVars, onbVars, expVars,
                   loadVars, dashVars>>

\* buildConnectionPayload
buildConnectionPayload == [name |-> formData.name, host |-> formData.host]

\* handleSaveConnection up to its await: the button of the dialog, which
\* reads Save Changes when editingConnection is set and Add Connection
\* otherwise; `dialog` remembers which one it was
handleSaveConnection ==
    /\ openDialog
    /\ formData.name # "" /\ formData.host # "" /\ formData.password # ""
    /\ Len(connCalls) < MaxConnCalls
    /\ connCalls' = Append(connCalls,
                           [api |-> "create", data |-> buildConnectionPayload,
                            dialog |-> IF editingConnection # <<>>
                                       THEN editingConnection[1].id
                                       ELSE Null])
    /\ UNCHANGED <<connStore, connections, connLoading, openDialog,
                   editingConnection, formData, connecting, connectionTables>>
    /\ UNCHANGED <<chatVars, authVars, dictVars, genVars, onbVars, expVars,
                   loadVars, dashVars>>

\* POST /connections: the backend adds a connection under a new id
Created(data) ==
    Append(connStore, [id |-> IdPool[Len(connStore) + 1], name |-> data.name,
                       host |-> data.host])

\* handleSaveConnection after await connectionsAPI.create(payload)
Conn_createSettled(k, ok) ==
    /\ k \in 1..Len(connCalls) /\ connCalls[k].api = "create"
    /\ IF ok
       THEN /\ Len(connStore) < MaxConnections
            /\ connStore' = Created(connCalls[k].data)
            /\ CloseDialog
            /\ fetchConnections(RemoveAt(connCalls, k))
       ELSE /\ connCalls' = RemoveAt(connCalls, k)
            /\ UNCHANGED <<connStore, openDialog, editingConnection,
                           connLoading>>
    /\ UNCHANGED <<connections, formData, connecting, connectionTables>>
    /\ UNCHANGED <<chatVars, authVars, dictVars, genVars, onbVars, expVars,
                   loadVars, dashVars>>

\* disabled={connecting === connection.id}
ConnectDisabled(id) == connecting = id

\* handleConnect up to its await: the Connect button of card i
handleConnect(i) ==
    /\ ~connLoading
    /\ i \in 1..Len(connections)
    /\ ~ConnectDisabled(connections[i].id)
    /\ Len(connCalls) < MaxConnCalls
    /\ connecting' = connections[i].id
    /\ connCalls' = Append(connCalls,
                           [api |-> "getTables", id |-> connections[i].id])
    /\ UNCHANGED <<connStore, connections, connLoading, openDialog,
                   editingConnection, formData, connectionTables>>
    /\ UNCHANGED <<chatVars, authVars, dictVars, genVars, onbVars, expVars,
                   loadVars, dashVars>>

\* what GET /connections/{id}/tables may answer: tables.length
TableCounts == {2}

\* handleConnect after await connectionsAPI.getTables(connection.id)
Conn_getTablesSettled(k, ok, tableCount) ==
    /\ k \in 1..Len(connCalls) /\ connCalls[k].api = "getTables"
    /\ connectionTables' =
          IF ok THEN WithTables(connectionTables, connCalls[k].id, tableCount)
          ELSE connectionTables
    /\ connecting' = Null
    /\ connCalls' = RemoveAt(connCalls, k)
    /\ UNCHANGED <<connStore, connections, connLoading, openDialog,
                   editingConnection, formData>>
    /\ UNCHANGED <<chatVars, authVars, dictVars, genVars, onbVars, expVars,
                   loadVars, dashVars>>

ConnInit ==
    /\ ChatInit /\ surface = "FloatingAIChatbot"
    /\ token = "t1" /\ user = "{id:1}" /\ path = "/connections"
    /\ calls = <<>> /\ delivered = <<>>
    /\ DictIdle /\ GenIdle /\ OnbIdle /\ ExpIdle /\ LoadIdle /\ DashIdle
    /\ connStore = StoredConnections
    /\ connections = <<>> /\ connLoading = TRUE
    /\ openDialog = FALSE /\ editingConnection = <<>>
    /\ formData = EmptyFormData /\ connecting = Null
    /\ connectionTables = {}
    /\ connCalls = <<[api |-> "list"]>>

ConnNext ==
    \/ \E k \in 1..MaxConnCalls, ok \in BOOLEAN : Conn_listSettled(k, ok)
    \/ \E i \in 0..MaxConnections : handleOpenDialog(i)
    \/ handleCloseDialog
    \/ \E field \in {"name", "host", "password"} :
          \E value \in FormValues(field) : Conn_setFormData(field, value)
    \/ handleSaveConnection
    \/ \E k \in 1..MaxConnCalls, ok \in BOOLEAN : Conn_createSettled(k, ok)
    \/ \E i \in 1..MaxConnections : handleConnect(i)
    \/ \E k \in 1..MaxConnCalls, ok \in BOOLEAN, n \in TableCounts :
          Conn_getTablesSettled(k, ok, n)

ConnSpec == ConnInit /\ [][ConnNext]_vars


\* this step settles call k, a create sent by Save Changes of an Edit dialog
SaveChangesSettles(k) ==
    /\ \E ok \in BOOLEAN : Conn_createSettled(k, ok)
    /\ connCalls[k].dialog # Null

\* C25: saving from the Edit Connection dialog updates the edited connection
\* in place: the backend holds the same number of connections as before,
\* under the same ids, the edited one among them, and no connection is added
C25_SaveChangesUpdatesInPlace ==
    [][\A k \in 1..MaxConnCalls :
          SaveChangesSettles(k) =>
              /\ Len(connStore') = Len(connStore)
              /\ \A j \in 1..Len(connStore) :
                    connStore'[j].id = connStore[j].id]_vars

\* the Connect requests in flight for connection id
ConnectsInFlight(id) ==
    {k \in 1..Len(connCalls) :
        connCalls[k].api = "getTables" /\ connCalls[k].id = id}

\* C26: while a Connect request for a connection is in flight, the Connect
\* button of that connection is disabled and no second Connect request for
\* it is in flight
C26_ConnectDisabledWhileInFlight ==
    \A i \in 1..Len(connStore) :
        ConnectsInFlight(connStore[i].id) # {} =>
            /\ ConnectDisabled(connStore[i].id)
            /\ Cardinality(ConnectsInFlight(connStore[i].id)) = 1


----------------------------------------------------------------------------
(* Dashboard: fetchDashboardData, one action per await that settles.       *)

\* tables.length of GET /connections/{id}/tables when it succeeds
TablesOf(id) == IF id = "c1" THEN 2 ELSE 3

\* the connections the backend may hold while the Dashboard loads
DashStores == { SubSeq(StoredConnections, 1, n) : n \in 0..2 }

\* the requests of connRes.data.map(async (conn) => ...)
TableCalls(data) ==
    { [api |-> "getTables", id |-> data[i].id] : i \in 1..Len(data) }

ConnectionsCall == [api |-> "connections", id |-> ""]
DictionariesCall == [api |-> "dictionaries", id |-> ""]

\* C27 mutant: a failed table listing resets every count gathered so far
countedResetOnFailure(prev, id, ok) ==
    IF ok THEN prev \cup {<<id, TablesOf(id)>>}
    ELSE {<<p[1], 0>> : p \in prev} \cup {<<id, 0>>}

\* tableCounts[conn.id] = tablesRes.data.tables.length, 0 in the catch
counted(prev, id, ok) ==
    prev \cup {<<id, IF ok THEN TablesOf(id) ELSE 0>>}

\* finally { setLoading(false) }
DashFinished == dashLoading' = FALSE /\ dashPhase' = "done"

\* after the first Promise.all: setConnections, setDictionaries, then the
\* table listings; Promise.all of no listings resolves at once
AfterLists(connData, dictData, pending) ==
    /\ connections' = connData
    /\ dictionaries' = dictData
    /\ tableCounts' = {}
    /\ dashCalls' = pending \cup TableCalls(connData)
    /\ IF connData = <<>>
       THEN connectionTableCounts' = {} /\ DashFinished
       ELSE /\ dashPhase' = "tables"
            /\ UNCHANGED <<connectionTableCounts, dashLoading>>

\* what the Dashboard actions leave alone outside their own state
DashFrame ==
    /\ UNCHANGED <<surface, mounted, now, messages, inputValue, isLoading,
                   selectedDictId, suggestedQuestions, loadingDicts, isOpen,
                   dictionaryId, inflight, listOutcome, notices>>
    /\ UNCHANGED <<connStore, connLoading, openDialog, editingConnection,
                   formData, connecting, connectionTables, connCalls>>
    /\ UNCHANGED <<authVars, dictVars, genVars, onbVars, expVars, loadVars>>

\* connectionsAPI.list() settles; a rejection rejects the Promise.all and
\* runs catch and finally
Dash_connectionsSettled(ok) ==
    /\ ConnectionsCall \in dashCalls
    /\ dashOutcomes' = dashOutcomes \cup {[call |-> ConnectionsCall, ok |-> ok]}
    /\ IF ~ok
       THEN /\ DashFinished
            /\ dashCalls' = dashCalls \ {ConnectionsCall}
            /\ UNCHANGED <<connRes, connections, dictionaries, tableCounts,
                           connectionTableCounts>>
       ELSE /\ connRes' = <<connStore>>
            /\ IF dictRes # <<>>
               THEN AfterLists(connStore, dictRes[1],
                               dashCalls \ {ConnectionsCall})
               ELSE /\ dashCalls' = dashCalls \ {ConnectionsCall}
                    /\ UNCHANGED <<connections, dictionaries, tableCounts,
                                   connectionTableCounts, dashLoading,
                                   dashPhase>>
    /\ UNCHANGED dictRes
    /\ DashFrame

\* dictionariesAPI.list().catch(() => ({ data: [] })) settles
Dash_dictionariesSettled(ok, body) ==
    /\ DictionariesCall \in dashCalls
    /\ dashOutcomes' = dashOutcomes \cup
          {[call |-> DictionariesCall, ok |-> ok, data |-> body]}
    /\ LET data == IF ok THEN body ELSE <<>>
       IN  /\ dictRes' = <<data>>
           /\ IF dashPhase = "lists" /\ connRes # <<>>
              THEN AfterLists(connRes[1], data, dashCalls \ {DictionariesCall})
              ELSE /\ dashCalls' = dashCalls \ {DictionariesCall}
                   /\ UNCHANGED <<connections, dictionaries, tableCounts,
                                  connectionTableCounts, dashLoading,
                                  dashPhase>>
    /\ UNCHANGED connRes
    /\ DashFrame

\* connectionsAPI.getTables(conn.id) settles; after the last one
\* setConnectionTableCounts(tableCounts) and finally
Dash_getTablesSettled(id, ok) ==
    /\ [api |-> "getTables", id |-> id] \in dashCalls
    /\ dashOutcomes' = dashOutcomes \cup
          {[call |-> [api |-> "getTables", id |-> id], ok |-> ok]}
    /\ dashCalls' = dashCalls \ {[api |-> "getTables", id |-> id]}
    /\ tableCounts' = counted(tableCounts, id, ok)
    /\ IF \A c \in dashCalls' : c.api # "getTables"
       THEN connectionTableCounts' = tableCounts' /\ DashFinished
       ELSE UNCHANGED <<connectionTableCounts, dashLoading, dashPhase>>
    /\ UNCHANGED <<connRes, dictRes, connections, dictionaries>>
    /\ DashFrame

DashInit ==
    /\ ChatInit /\ surface = "FloatingAIChatbot"
    /\ token = "t1" /\ user = "{id:1}" /\ path = "/dashboard"
    /\ calls = <<>> /\ delivered = <<>>
    /\ DictIdle /\ GenIdle /\ OnbIdle /\ ExpIdle /\ LoadIdle
    /\ connStore \in DashStores
    /\ connections = <<>> /\ connLoading = TRUE
    /\ openDialog = FALSE /\ editingConnection = <<>>
    /\ formData = EmptyFormData /\ connecting = Null
    /\ connectionTables = {} /\ connCalls = <<>>
    /\ dashLoading = TRUE /\ dashPhase = "lists"
    /\ dashCalls = {ConnectionsCall, DictionariesCall}
    /\ connRes = <<>> /\ dictRes = <<>> /\ tableCounts = {}
    /\ connectionTableCounts = {} /\ dashOutcomes = {}

DashNext ==
    \/ \E ok \in BOOLEAN : Dash_connectionsSettled(ok)
    \/ \E ok \in BOOLEAN, body \in ListBodies :
          Dash_dictionariesSettled(ok, body)
    \/ \E id \in {"c1", "c2"}, ok \in BOOLEAN : Dash_getTablesSettled(id, ok)

DashSpec == DashInit /\ [][DashNext]_vars

\* the request ended in a failure
Failed(call) == \E o \in dashOutcomes : o.call = call /\ ~o.ok

\* the request ended in a success
Succeeded(call) == \E o \in dashOutcomes : o.call = call /\ o.ok

\* the table count the Dashboard shows for a connection, -1 for none
ShownCount(id) ==
    IF \E p \in connectionTableCounts : p[1] = id
    THEN (CHOOSE p \in connectionTableCounts : p[1] = id)[2]
    ELSE NoNumber

====
